---- MODULE Spec2Model ----
(***************************************************************************)
(* Model of the container runtime (DeveloperWK/container_rs).              *)
(*                                                                         *)
(* Three processes take part in one run:                                   *)
(*   P0  the runtime process started by the user (main / run),             *)
(*   P1  the child of the intermediate fork (pid 1 of the container),      *)
(*   P2  the process forked by P1 that execve()s the user command.         *)
(* The kernel (results of syscalls, cgroup membership, mount view) is the  *)
(* environment; a syscall result is drawn with \E where the code reads it. *)
(***************************************************************************)
EXTENDS Integers, Sequences, FiniteSets, TLC

\* ---------------------------------------------------------------- bounds
\* user commands exit with a code in 0..MaxExitCode
MaxExitCode == 2
\* how many tolerated (only logged) failures the kernel injects into one
\* run of calls
MaxSoftFailures == 1
\* how many add_process calls and how many explicit cleanup() calls are made
\* on a manager used on its own
MaxAttach == 1
MaxCleanups == 1
\* how many signals are delivered to the process that forked the command
MaxSignals == 2
\* how many times a waitpid call reports a stopped or continued child
MaxReports == 1
\* how many bytes the command writes to its terminal
MaxBytes == 2
\* how many bytes the pty holds on their way from the master to the command
QueueCap == 1
\* the largest number of retries delete_with_retry is tried with
MaxRetries == 6

\* ------------------------------------------------------- program constants
SIGINT == 2
SIGQUIT == 3
SIGKILL == 9
SIGTERM == 15
\* exit code of main when run() returns Err
ErrorExitCode == 1
\* exit code of a Rust process that panics (todo!())
PanicExitCode == 101
\* retries handed to delete_with_retry by cleanup
DeleteRetries == 5
\* the ceiling cleanup hands to delete_with_retry, and the delay
\* delete_with_retry starts with, in milliseconds
CleanupCeilingMs == 100
InitialDelayMs == 10
\* pid of the forked command as seen by P1 (any positive number)
CmdPid == 2

Procs == {"P0", "P1", "P2"}
Limits == {"memory", "cpu", "pids"}
ExitCodes == 0..MaxExitCode
KillSignals == {SIGKILL, SIGTERM}
\* the signals execute_with_pty and execute_without_pty install
\* handle_signal for
HandledSignals == {SIGINT, SIGTERM, SIGQUIT}

\* rootfs layouts the runs are tried on: which of oldroot, proc, sys, dev
\* already exist inside the rootfs
RootfsLayouts ==
    { [oldroot |-> FALSE, proc |-> FALSE, sys |-> FALSE, dev |-> FALSE],
      [oldroot |-> FALSE, proc |-> TRUE,  sys |-> TRUE,  dev |-> TRUE ],
      [oldroot |-> TRUE,  proc |-> TRUE,  sys |-> TRUE,  dev |-> FALSE] }

VARIABLES
    euidRoot,      \* Uid::current().is_root()
    limits,        \* which of --memory-mb / --cpu-percent / --pids-limit were given
    cgroupV2,      \* /sys/fs/cgroup/cgroup.controllers exists
    sigchldIgnored,\* SIGCHLD is SIG_IGN in the runtime (inherited): waitpid gives ECHILD
    pc,            \* position of each process
    status,        \* unborn, alive, or the terminal status of each process
    manager,       \* does the process hold Some(CgroupManager) in run()
    view,          \* mount view of each process: "host" or "container"
    runResult,     \* value run() is returning in each process
    cgDir,         \* /sys/fs/cgroup/container-<pid> exists (host view)
    cgFiles,       \* limit files of the group that were written
    cgMembers,     \* processes in the group (cgroup.procs)
    childPid,      \* the CHILD_PID atomic of P1
    usePty,        \* result of the pty probe in execute_container_command
    log,           \* privileged operations issued so far, in order
    pivotIn,       \* SpecPivot: the input pivot_root is applied to
    pivotOut,      \* SpecPivot: what pivot_root did on pivotIn
    delivered,     \* signals delivered to P1 since it forked the command, in order
    forwarded,     \* signals handle_signal passed on with kill(child, sig), in order
    environ,       \* environment variables of the runtime process
    execEnv,       \* envp handed to execve for the user command
    memoryMb,      \* --memory-mb as a u64
    memoryMax,     \* content written to <group>/memory.max
    rootfsBefore,  \* entries of the rootfs directory before the run (host view)
    rootfsDirs,    \* entries of the rootfs directory now (host view)
    command,       \* the command as given, a string
    args,          \* the arguments of the command, strings
    files,         \* the paths that exist in the root the command is looked up in
    commandPath,   \* the path execute_container_command resolved the command to
    retryIn,       \* arguments of the latest delete_with_retry call
    retryOut,      \* what that call did: rmdir attempts, sleeps, result
    reports,       \* how often waitpid told each process its child stopped or continued
    interrupts,    \* how often the waitpid of wait_for_child returned EINTR
    handlerRuns,   \* runs of handle_signal outside the wait of P1: who, value read, kill
    childPidCopy,  \* the CHILD_PID atomic in the memory of the forked child P2
    fd,            \* the descriptors of the pty: open, owning objects, close calls
    threads,       \* how many auxiliary threads P1 has spawned
    thread,        \* the stdin thread: not spawned, running, or ended and why
    stdin,         \* host stdin: "open", "eof" or "error"
    inQueue,       \* bytes written to the pty master that the command has not read
    written,       \* bytes the command wrote to its terminal
    pending,       \* of these, the bytes still readable from the pty master
    shown          \* of these, the bytes P1 wrote to host stdout

vars == <<euidRoot, limits, cgroupV2, sigchldIgnored, pc, status, manager, view,
          runResult, cgDir, cgFiles, cgMembers, childPid, usePty, log,
          pivotIn, pivotOut, delivered, forwarded, environ, execEnv,
          memoryMb, memoryMax, rootfsBefore, rootfsDirs, command, args, files,
          commandPath, retryIn, retryOut, reports, interrupts,
          handlerRuns, childPidCopy, fd, threads, thread, stdin, inQueue,
          written, pending, shown>>

sigVars == <<delivered, forwarded>>
envVars == <<environ, execEnv>>
memVars == <<memoryMb, memoryMax>>
fsVars == <<rootfsBefore, rootfsDirs>>
cmdVars == <<command, args, files, commandPath>>
retryVars == <<retryIn, retryOut>>
waitVars == <<reports, interrupts>>
handlerVars == <<handlerRuns, childPidCopy>>
ptyVars == <<fd, threads, thread, stdin, inQueue, written, pending, shown>>

Unborn == [kind |-> "unborn", code |-> 0]
Running == [kind |-> "alive", code |-> 0]
Exited(n) == [kind |-> "exited", code |-> n]
Signaled(s) == [kind |-> "signaled", code |-> s]
Alive(p) == status[p].kind = "alive"
Terminated(p) == status[p].kind \in {"exited", "signaled"}

Op(p, o, ok) == [p |-> p, op |-> o, ok |-> ok]
\* the positions of the log at which op was issued
Idx(op) == {i \in 1..Len(log) : log[i].op = op}
Did(op) == Idx(op) # {}
DidOk(op) == \E i \in Idx(op) : log[i].ok

NoPivot == [ops |-> <<>>, ok |-> FALSE, done |-> FALSE]

\* ------------------------------------------------------- u64 arithmetic
\* a u64 is four 16-bit limbs, least significant first
LimbBase == 65536
U64Limbs == 4
U64(a, b, c, d) == <<a, b, c, d>>
IsZero(x) == \A i \in 1..Len(x) : x[i] = 0

\* x * k + carry, limb by limb; the result has one limb more than x
RECURSIVE MulLimbs(_, _, _)
MulLimbs(x, k, carry) ==
    IF x = <<>> THEN <<carry>>
    ELSE LET t == Head(x) * k + carry
         IN <<t % LimbBase>> \o MulLimbs(Tail(x), k, t \div LimbBase)

\* the low 64 bits of a product, and whether bits were lost
Low64(x) == SubSeq(x, 1, U64Limbs)
Lost64(x) == ~IsZero(SubSeq(x, U64Limbs + 1, Len(x)))

\* the limbs 1..i of x divided by 10, starting from the remainder rem of the
\* limbs above: quotient limbs and remainder
RECURSIVE DivLimbs(_, _, _)
DivLimbs(x, i, rem) ==
    IF i = 0 THEN [q |-> <<>>, r |-> rem]
    ELSE LET t == rem * LimbBase + x[i]
             lower == DivLimbs(x, i - 1, t % 10)
         IN [q |-> Append(lower.q, t \div 10), r |-> lower.r]

RECURSIVE Digits(_)
Digits(x) ==
    IF IsZero(x) THEN <<>>
    ELSE LET d == DivLimbs(x, Len(x), 0) IN Append(Digits(d.q), d.r)

\* cgroup.rs 223: limit.to_string(), the decimal digits of a number, most
\* significant first
LimitToString(x) == IF IsZero(x) THEN <<0>> ELSE Digits(x)

\* the values of --memory-mb the runs are tried on: 0, 64, 2^44 - 1 (the
\* largest whose byte count fits a u64) and 2^44
MemoryInputs ==
    { U64(0, 0, 0, 0), U64(64, 0, 0, 0),
      U64(65535, 65535, 4095, 0), U64(0, 0, 4096, 0) }

\* cgroup.rs 41-44: memory_limit = mb * 1024 * 1024 in u64; an overflowing
\* product panics in a build with overflow checks and wraps otherwise
WithMemoryMb(mb, checks) ==
    LET a == MulLimbs(mb, 1024, 0)
        b == MulLimbs(Low64(a), 1024, 0)
    IN IF checks /\ (Lost64(a) \/ Lost64(b))
          THEN [panic |-> TRUE, limit |-> U64(0, 0, 0, 0)]
          ELSE [panic |-> FALSE, limit |-> Low64(b)]

\* ----------------------------------------------------------- environment
\* variables the runtime may have been started with
HostVars == {"PATH=/opt/bin", "SECRET=token"}

\* BuildEnvironment passing the variables of the runtime on as well
BuildEnvironmentInherits(env) ==
    { "PATH=/usr/local/sbin:/usr/local/bin:/usr/sbin:/usr/bin:/sbin:/bin",
      "TERM=xterm", "HOME=/root", "HOSTNAME=rust-container",
      "container=rust-container-runtime" } \cup env

\* process.rs 666-675: the environment of the command; nothing of the
\* environment of the runtime (env) is passed on
BuildEnvironment(env) ==
    { "PATH=/usr/local/sbin:/usr/local/bin:/usr/sbin:/usr/bin:/sbin:/bin",
      "TERM=xterm", "HOME=/root", "HOSTNAME=rust-container",
      "container=rust-container-runtime" }

\* ------------------------------------------------------ command inputs
\* a string is the sequence of its parts; "/" and the NUL byte are parts of
\* their own, every other part is a run of ordinary characters
Nul == "NUL"
BinSh == <<"/", "bin", "/", "sh">>
\* the roots a whole run is tried on: without and with /bin/sh
LookupFew == {{}, {BinSh}}
\* the paths that may exist in the roots the lookup on its own is tried on
LookupPaths ==
    { BinSh, <<"/", "usr", "/", "bin", "/", "sh">>, <<"/", "sbin", "/", "sh">>,
      <<"/", "usr", "/", "sbin", "/", "sh">>, <<"/", "opt", "/", "app">> }
\* the commands and argument lists the lookup on its own is tried on
Commands == { <<"sh">>, <<"/", "opt", "/", "app">>, <<"s", Nul, "h">> }
ArgLists == { <<>>, << <<"-c">>, <<"true">> >>, << <<"-c">>, <<"a", Nul, "b">> >> }

\* ------------------------------------------------- delete_with_retry calls
\* the ceiling argument None (no cap: Duration::MAX, cgroup.rs 188)
NoCeiling == -1
\* the ceilings delete_with_retry is tried with, in milliseconds: none,
\* below the initial delay, the initial delay, the one cleanup passes
Ceilings == {NoCeiling, 5, 10, 100}
NoRetryIn == [retries |-> 0, ceiling |-> NoCeiling, busy |-> 0, by |-> "none"]
NoRetryOut == [ops |-> <<>>, sleeps |-> <<>>, result |-> "none"]

\* the descriptors execute_with_pty deals with: the two ends of the pty and
\* the duplicate of the master in P1, the two ends as the forked child
\* inherits them
Fds == {"master", "slave", "master_in", "child_master", "child_slave"}
NoFd == [open |-> FALSE, owners |-> {}, closes |-> 0]
\* a descriptor as openpty, fork or dup hands it to the object that owns it
OpenFd(owner) == [open |-> TRUE, owners |-> {owner}, closes |-> 0]
\* the object `owner` of descriptor f is dropped: close(f) is called
CloseBy(f, owner, fds) ==
    [fds EXCEPT ![f] = [open |-> FALSE, owners |-> @.owners \ {owner},
                        closes |-> @.closes + 1]]
\* process.rs 499 with 472: master_out is a File made from the raw number of
\* pty.master, which keeps owning the descriptor
AlsoOwnedBy(f, owner, fds) ==
    [fds EXCEPT ![f].owners = @ \cup {owner}]
\* the parent branch of execute_with_pty is left (process.rs 524-531, 571-586):
\* master_out is dropped, then what is left of pty, its master
ReturnFromPty(fds) ==
    CloseBy("master", "pty.master", CloseBy("master", "master_out", fds))

NoThread == [state |-> "none", why |-> "none", sidesOpen |-> FALSE]

\* no signal was handled outside the wait yet
NoHandlerRuns ==
    /\ handlerRuns = {}
    /\ childPidCopy = 0

\* no pty was opened yet and host stdin is open
NoPty ==
    /\ fd = [f \in Fds |-> NoFd]
    /\ threads = 0
    /\ thread = NoThread
    /\ stdin = "open"
    /\ inQueue = 0
    /\ written = 0
    /\ pending = 0
    /\ shown = 0

Boot ==
    /\ rootfsBefore = {}
    /\ rootfsDirs = {}
    /\ command = <<"sh">>
    /\ args = <<>>
    /\ files = {}
    /\ commandPath = <<>>
    /\ retryIn = NoRetryIn
    /\ retryOut = NoRetryOut
    /\ reports = [p \in Procs |-> 0]
    /\ interrupts = 0
    /\ NoHandlerRuns
    /\ NoPty
    /\ pc = [p \in Procs |-> IF p = "P0" THEN "start" ELSE "none"]
    /\ status = [p \in Procs |-> IF p = "P0" THEN Running ELSE Unborn]
    /\ manager = [p \in Procs |-> FALSE]
    /\ view = [p \in Procs |-> "host"]
    /\ runResult = [p \in Procs |-> "none"]
    /\ cgDir = FALSE
    /\ cgFiles = {}
    /\ cgMembers = {}
    /\ childPid = 0
    /\ usePty = FALSE
    /\ log = <<>>
    /\ delivered = <<>>
    /\ forwarded = <<>>
    /\ execEnv = {}
    /\ memoryMax = <<>>

Init ==
    /\ euidRoot \in BOOLEAN
    /\ limits \in SUBSET Limits
    /\ cgroupV2 \in BOOLEAN
    /\ sigchldIgnored \in BOOLEAN
    /\ Boot
    /\ pivotIn = [oldroot |-> FALSE, failing |-> {}]
    /\ pivotOut = NoPivot
    /\ environ = HostVars
    /\ memoryMb = U64(64, 0, 0, 0)

\* run() returns r in process p: the scope of run() is left
Return(p, r) ==
    /\ pc' = [pc EXCEPT ![p] = "ret"]
    /\ runResult' = [runResult EXCEPT ![p] = r]

\* ------------------------------------------------------------ run(): P0
\* CheckRoot without the test of the effective uid
CheckRootSkipped ==
    /\ pc["P0"] = "start" /\ Alive("P0")
    /\ pc' = [pc EXCEPT !["P0"] = "cgroup"]
    /\ UNCHANGED <<euidRoot, limits, cgroupV2, sigchldIgnored, status, manager, view,
                   runResult, cgDir, cgFiles, cgMembers, childPid, usePty, log,
                   pivotIn, pivotOut, sigVars, envVars, memVars,
                   fsVars, cmdVars, retryVars, waitVars, handlerVars, ptyVars>>

\* main.rs 41-44: the privilege check
CheckRoot ==
    /\ pc["P0"] = "start" /\ Alive("P0")
    /\ IF euidRoot
          THEN pc' = [pc EXCEPT !["P0"] = "cgroup"] /\ UNCHANGED runResult
          ELSE Return("P0", "RootRequired")
    /\ UNCHANGED <<euidRoot, limits, cgroupV2, sigchldIgnored, status, manager, view,
                   cgDir, cgFiles, cgMembers, childPid, usePty, log,
                   pivotIn, pivotOut, sigVars, envVars, memVars,
                   fsVars, cmdVars, retryVars, waitVars, handlerVars, ptyVars>>

\* ------------------------------------------------------ cgroup manager
\* cgroup.rs 141-157: the limit files setup_v2 writes for the limits run()
\* can request (memory_swap_limit and cpu_weight are never set by run())
SetupWrites(lims) ==
    (IF "memory" \in lims THEN <<"memory.max", "memory.swap.max">> ELSE <<>>)
    \o (IF "cpu" \in lims THEN <<"cpu.max">> ELSE <<>>)
    \o (IF "pids" \in lims THEN <<"pids.max">> ELSE <<>>)

\* the steps of setup_v2 whose failure does not make it return Err: the
\* controller enabling (only logged, 167-175) and the write of pids.max,
\* whose result set_pids_limit_v2 discards (271); every other step uses `?`
SetupNonFatal == {"subtree_control", "pids.max"}

\* a run of calls each followed by `?` unless its failure is tolerated:
\* the calls are issued in order, a call the kernel fails (failing) ends the
\* run with Err unless it is in nonFatal, and no later call is issued
RECURSIVE RunSteps(_, _, _, _, _)
RunSteps(p, steps, failing, nonFatal, acc) ==
    IF steps = <<>> THEN [ops |-> acc, ok |-> TRUE]
    ELSE LET f == Head(steps)
             ok == f \notin failing
             ops == Append(acc, Op(p, f, ok))
         IN IF ~ok /\ f \notin nonFatal
               THEN [ops |-> ops, ok |-> FALSE]
               ELSE RunSteps(p, Tail(steps), failing, nonFatal, ops)

\* the operations of a run that succeeded
Succeeded(ops) == {ops[i].op : i \in {j \in 1..Len(ops) : ops[j].ok}}
Range(seq) == {seq[i] : i \in 1..Len(seq)}

\* cgroup.rs 135-161: create the directory, enable the controllers, write
\* the limit files
SetupSteps(lims) == <<"mkdir_cgroup", "subtree_control">> \o SetupWrites(lims)

SetupV2(lims, failing) ==
    RunSteps("P0", SetupSteps(lims), failing, SetupNonFatal, <<>>)

\* the results the kernel can give to a run of calls: the failure of a fatal
\* call ends the run, so at most one fatal call fails
Failures(steps, nonFatal) ==
    { F \cup N : F \in {{}} \cup {{f} : f \in Range(steps) \ nonFatal},
                 N \in {M \in SUBSET (Range(steps) \cap nonFatal) :
                            Cardinality(M) <= MaxSoftFailures} }

\* cgroup.rs 220-224: the content set_memory_limit_v2 writes to memory.max
MemoryMaxContent(mb, checks) == LimitToString(WithMemoryMb(mb, checks).limit)

\* main.rs 54-69 and 72-75: build the configuration and the manager and set
\* the group up; checks is whether the build has overflow checks (they are
\* on in the debug profile and off in the release profile)
CgroupSetup ==
    /\ pc["P0"] = "cgroup" /\ Alive("P0")
    /\ \E checks \in BOOLEAN :
       IF limits = {}
          THEN /\ pc' = [pc EXCEPT !["P0"] = "unshare"]
               /\ UNCHANGED <<manager, runResult, cgDir, cgFiles, log, memoryMax>>
          ELSE IF "memory" \in limits /\ WithMemoryMb(memoryMb, checks).panic
          THEN \* with_memory_mb panics before the manager is built
               /\ Return("P0", "Panic")
               /\ UNCHANGED <<manager, cgDir, cgFiles, log, memoryMax>>
          ELSE /\ manager' = [manager EXCEPT !["P0"] = TRUE]
               /\ IF ~cgroupV2
                     THEN \* setup_v1 is todo!(): the process panics
                          /\ Return("P0", "Panic")
                          /\ log' = Append(log, Op("P0", "setup_v1", FALSE))
                          /\ UNCHANGED <<cgDir, cgFiles, memoryMax>>
                     ELSE \E failing \in Failures(SetupSteps(limits), SetupNonFatal) :
                            LET r == SetupV2(limits, failing)
                            IN /\ log' = log \o r.ops
                               /\ cgDir' = ("mkdir_cgroup" \in Succeeded(r.ops))
                               /\ cgFiles' = Succeeded(r.ops) \cap Range(SetupWrites(limits))
                               /\ memoryMax' =
                                     IF "memory.max" \in Succeeded(r.ops)
                                        THEN MemoryMaxContent(memoryMb, checks)
                                        ELSE memoryMax
                               /\ IF r.ok
                                     THEN /\ pc' = [pc EXCEPT !["P0"] = "attach"]
                                          /\ UNCHANGED runResult
                                     ELSE Return("P0", "Cgroup")
    /\ UNCHANGED <<euidRoot, limits, cgroupV2, sigchldIgnored, status, view,
                   cgMembers, childPid, usePty,
                   pivotIn, pivotOut, sigVars, envVars, memoryMb,
                   fsVars, cmdVars, retryVars, waitVars, handlerVars, ptyVars>>

\* main.rs 70-71 with cgroup.rs 104-111, 275-280: write the pid of the
\* runtime to cgroup.procs; run() does not look at the result
AddProcess ==
    /\ pc["P0"] = "attach" /\ Alive("P0")
    /\ \E ok \in BOOLEAN :
          /\ log' = Append(log, Op("P0", "cgroup.procs", ok))
          /\ cgMembers' = IF ok THEN cgMembers \cup {"P0"} ELSE cgMembers
    /\ pc' = [pc EXCEPT !["P0"] = "unshare"]
    /\ UNCHANGED <<euidRoot, limits, cgroupV2, sigchldIgnored, status, manager, view,
                   runResult, cgDir, cgFiles, childPid, usePty,
                   pivotIn, pivotOut, sigVars, envVars, memVars,
                   fsVars, cmdVars, retryVars, waitVars, handlerVars, ptyVars>>

\* ---------------------------------------------------- namespace manager
\* main.rs 76 with namespace.rs 55-69: unshare(pid, net, mount, uts, ipc)
Unshare ==
    /\ pc["P0"] = "unshare" /\ Alive("P0")
    /\ \E ok \in BOOLEAN :
          /\ log' = Append(log, Op("P0", "unshare", ok))
          /\ IF ok THEN pc' = [pc EXCEPT !["P0"] = "fork"] /\ UNCHANGED runResult
                   ELSE Return("P0", "NamespaceSetup")
    /\ UNCHANGED <<euidRoot, limits, cgroupV2, sigchldIgnored, status, manager, view,
                   cgDir, cgFiles, cgMembers, childPid, usePty,
                   pivotIn, pivotOut, sigVars, envVars, memVars,
                   fsVars, cmdVars, retryVars, waitVars, handlerVars, ptyVars>>

\* main.rs 77 with namespace.rs 70-78, 112-122: the intermediate fork.
\* The child is a copy of the parent (it holds the manager too) and is in
\* the cgroup of the parent; the parent enters the wait loop.
EnterPidNamespace ==
    /\ pc["P0"] = "fork" /\ Alive("P0")
    /\ \E ok \in BOOLEAN :
          /\ log' = Append(log, Op("P0", "fork", ok))
          /\ IF ok
                THEN /\ pc' = [pc EXCEPT !["P0"] = "wait", !["P1"] = "hostname"]
                     /\ status' = [status EXCEPT !["P1"] = Running]
                     /\ manager' = [manager EXCEPT !["P1"] = manager["P0"]]
                     /\ cgMembers' = IF "P0" \in cgMembers
                                        THEN cgMembers \cup {"P1"} ELSE cgMembers
                     /\ UNCHANGED runResult
                ELSE /\ Return("P0", "NamespaceSetup")
                     /\ UNCHANGED <<status, manager, cgMembers>>
    /\ UNCHANGED <<euidRoot, limits, cgroupV2, sigchldIgnored, view,
                   cgDir, cgFiles, childPid, usePty,
                   pivotIn, pivotOut, sigVars, envVars, memVars,
                   fsVars, cmdVars, retryVars, waitVars, handlerVars, ptyVars>>

\* what waitpid(child, 0) returns once the child has terminated: its status,
\* or ECHILD when SIGCHLD is ignored (the kernel reaps the child itself)
WaitResult(child) ==
    IF sigchldIgnored THEN [kind |-> "ECHILD", code |-> 0] ELSE status[child]

\* ParentExitCode adding 128 to an exit status as it does to a signal
ParentExitCodeShifted(w) ==
    CASE w.kind = "exited" -> 128 + w.code
      [] w.kind = "signaled" -> 128 + w.code
      [] w.kind = "ECHILD" -> 0
      [] OTHER -> 1

\* namespace.rs 80-108: the exit code the parent of the intermediate fork
\* passes to std::process::exit for a result of waitpid
ParentExitCode(w) ==
    CASE w.kind = "exited" -> w.code
      [] w.kind = "signaled" -> 128 + w.code
      [] w.kind = "ECHILD" -> 0
      [] OTHER -> 1

\* ParentWait leaving the loop and returning to run() instead of exiting
ParentWaitReturns ==
    /\ pc["P0"] = "wait" /\ Alive("P0")
    /\ Terminated("P1")
    /\ Return("P0", "Ok")
    /\ UNCHANGED <<euidRoot, limits, cgroupV2, sigchldIgnored, status, manager, view,
                   cgDir, cgFiles, cgMembers, childPid, usePty, log,
                   pivotIn, pivotOut, sigVars, envVars, memVars,
                   fsVars, cmdVars, retryVars, waitVars, handlerVars, ptyVars>>

\* namespace.rs 78-110: the wait loop of the parent; std::process::exit runs
\* no destructor, so the manager held by P0 is never dropped here
ParentWait ==
    /\ pc["P0"] = "wait" /\ Alive("P0")
    /\ Terminated("P1")
    /\ status' = [status EXCEPT !["P0"] = Exited(ParentExitCode(WaitResult("P1")))]
    /\ pc' = [pc EXCEPT !["P0"] = "done"]
    /\ UNCHANGED <<euidRoot, limits, cgroupV2, sigchldIgnored, manager, view, runResult,
                   cgDir, cgFiles, cgMembers, childPid, usePty, log,
                   pivotIn, pivotOut, sigVars, envVars, memVars,
                   fsVars, cmdVars, retryVars, waitVars, handlerVars, ptyVars>>

\* SetHostname with the result of set_hostname discarded
SetHostnameUnchecked ==
    /\ pc["P1"] = "hostname" /\ Alive("P1")
    /\ \E ok \in BOOLEAN : log' = Append(log, Op("P1", "sethostname", ok))
    /\ pc' = [pc EXCEPT !["P1"] = "rootfs"]
    /\ UNCHANGED <<euidRoot, limits, cgroupV2, sigchldIgnored, status, manager, view,
                   runResult, cgDir, cgFiles, cgMembers, childPid, usePty,
                   pivotIn, pivotOut, sigVars, envVars, memVars,
                   fsVars, cmdVars, retryVars, waitVars, handlerVars, ptyVars>>

\* main.rs 79-80 with namespace.rs 124-134
SetHostname ==
    /\ pc["P1"] = "hostname" /\ Alive("P1")
    /\ \E ok \in BOOLEAN :
          /\ log' = Append(log, Op("P1", "sethostname", ok))
          /\ IF ok THEN pc' = [pc EXCEPT !["P1"] = "rootfs"] /\ UNCHANGED runResult
                   ELSE Return("P1", "NamespaceSetup")
    /\ UNCHANGED <<euidRoot, limits, cgroupV2, sigchldIgnored, status, manager, view,
                   cgDir, cgFiles, cgMembers, childPid, usePty,
                   pivotIn, pivotOut, sigVars, envVars, memVars,
                   fsVars, cmdVars, retryVars, waitVars, handlerVars, ptyVars>>

\* --------------------------------------------------- filesystem manager
RootfsKinds == {"missing", "file", "dir"}

\* filesystem.rs 141-202, 208-211: the calls of pivot_root in order; oldroot
\* is created only when it does not exist yet (181)
PivotRootSteps(oldrootExists) ==
    <<"mount_slave", "mount_bind", "mount_private", "chdir_rootfs">>
    \o (IF oldrootExists THEN <<>> ELSE <<"mkdir_oldroot">>)
    \o <<"pivot_root", "chdir_root", "umount_oldroot", "remove_oldroot">>

\* PivotNonFatal with the failure of the detach propagated by `?`
PivotNonFatalDetachFatal == {"mount_slave", "remove_oldroot"}

\* filesystem.rs 148, 208-213: the MS_SLAVE remount ends in .ok(), the detach
\* and the removal of /oldroot only warn
PivotNonFatal == {"mount_slave", "umount_oldroot", "remove_oldroot"}

\* filesystem.rs 137-206 with cleanup_old_root 207-216
PivotRoot(oldrootExists, failing) ==
    RunSteps("P1", PivotRootSteps(oldrootExists), failing, PivotNonFatal, <<>>)

\* filesystem.rs 50-103: /proc is created when absent and mounted (fatal),
\* sysfs and devtmpfs are mounted only where the directory exists (warn)
MountSteps(layout) ==
    (IF layout.proc THEN <<>> ELSE <<"mkdir_proc">>) \o <<"mount_proc">>
    \o (IF layout.sys THEN <<"mount_sysfs">> ELSE <<>>)
    \o (IF layout.dev THEN <<"mount_devtmpfs">> ELSE <<>>)

MountNonFatal == {"mount_sysfs", "mount_devtmpfs"}

\* filesystem.rs 36-49 with validate_rootfs 14-35
SetupContainerFilesystem(kind, layout, failing) ==
    IF kind # "dir"
       THEN [ops |-> <<Op("P1", "validate_rootfs", FALSE)>>, ok |-> FALSE]
       ELSE LET pre == RunSteps("P1", <<"canonicalize">>, failing, {},
                                <<Op("P1", "validate_rootfs", TRUE)>>)
                pv == PivotRoot(layout.oldroot, failing)
                mt == RunSteps("P1", MountSteps(layout), failing, MountNonFatal, <<>>)
            IN IF ~pre.ok THEN pre
               ELSE IF ~pv.ok THEN [ops |-> pre.ops \o pv.ops, ok |-> FALSE]
               ELSE [ops |-> pre.ops \o pv.ops \o mt.ops, ok |-> mt.ok]

FsSteps(layout) ==
    <<"canonicalize">> \o PivotRootSteps(layout.oldroot) \o MountSteps(layout)

\* the entries of a rootfs with the given layout
LayoutDirs(layout) == {d \in {"oldroot", "proc", "sys", "dev"} : layout[d]}

\* the entries of the rootfs after the calls ops on a rootfs that had the
\* entries before: create_dir_all adds oldroot (filesystem.rs 182) and proc
\* (53), remove_dir_all takes oldroot away (211); nothing removes proc
RootfsAfter(before, ops) ==
    LET did == Succeeded(ops)
        made == (IF "mkdir_oldroot" \in did THEN {"oldroot"} ELSE {})
                \cup (IF "mkdir_proc" \in did THEN {"proc"} ELSE {})
        gone == IF "remove_oldroot" \in did THEN {"oldroot"} ELSE {}
    IN (before \cup made) \ gone

\* main.rs 81-82: the root pivot and the pseudo-filesystem mounts; after a
\* successful pivot_root syscall the process sees the rootfs, not the host.
\* The rootfs is read here for the first time (validate_rootfs): its entries
\* before the run are recorded, and the entries the calls leave behind.
SetupFilesystem ==
    /\ pc["P1"] = "rootfs" /\ Alive("P1")
    /\ \E kind \in RootfsKinds, layout \in RootfsLayouts :
         \E failing \in Failures(FsSteps(layout), PivotNonFatal \cup MountNonFatal) :
            LET r == SetupContainerFilesystem(kind, layout, failing)
            IN /\ log' = log \o r.ops
               /\ view' = [view EXCEPT !["P1"] =
                              IF "pivot_root" \in Succeeded(r.ops)
                                 THEN "container" ELSE @]
               /\ IF r.ok THEN pc' = [pc EXCEPT !["P1"] = "exec"] /\ UNCHANGED runResult
                          ELSE Return("P1", "Filesystem")
               /\ IF kind = "dir"
                     THEN /\ rootfsBefore' = LayoutDirs(layout)
                          /\ rootfsDirs' = RootfsAfter(LayoutDirs(layout), r.ops)
                     ELSE UNCHANGED fsVars
    /\ UNCHANGED <<euidRoot, limits, cgroupV2, sigchldIgnored, status, manager,
                   cgDir, cgFiles, cgMembers, childPid, usePty,
                   pivotIn, pivotOut, sigVars, envVars, memVars,
                   cmdVars, retryVars, waitVars, handlerVars, ptyVars>>

\* ------------------------------------------------------ process manager
HasNul(str) == \E i \in 1..Len(str) : str[i] = Nul
StartsWithSlash(str) == Len(str) > 0 /\ str[1] = "/"

\* process.rs 342: the directories searched, in order
SearchPrefixes ==
    << <<"/", "bin">>, <<"/", "usr", "/", "bin">>,
       <<"/", "sbin">>, <<"/", "usr", "/", "sbin">> >>

\* process.rs 344: format!("{}/{}", prefix, command)
Candidate(prefix, cmd) == prefix \o <<"/">> \o cmd

\* Path::new(p).exists() in a root holding the paths fs: a path with a NUL
\* byte cannot be handed to stat and is reported as not existing
Exists(path, fs) == ~HasNul(path) /\ path \in fs

\* ResolveCommand taking the last directory that has the command
ResolveCommandLast(cmd, fs) ==
    IF StartsWithSlash(cmd) THEN cmd
    ELSE LET hits == {i \in 1..Len(SearchPrefixes) :
                          Exists(Candidate(SearchPrefixes[i], cmd), fs)}
         IN IF hits = {} THEN Candidate(<<"/", "bin">>, cmd)
            ELSE Candidate(SearchPrefixes[CHOOSE i \in hits : \A j \in hits : j <= i], cmd)

\* process.rs 339-347: the path the command is resolved to
ResolveCommand(cmd, fs) ==
    IF StartsWithSlash(cmd) THEN cmd
    ELSE LET hits == {i \in 1..Len(SearchPrefixes) :
                          Exists(Candidate(SearchPrefixes[i], cmd), fs)}
         IN IF hits = {} THEN Candidate(<<"/", "bin">>, cmd)
            ELSE Candidate(SearchPrefixes[CHOOSE i \in hits : \A j \in hits : i <= j], cmd)

\* process.rs 658-664: CString::new(..).unwrap() of the path and of every
\* argument; a NUL byte makes CString::new fail and unwrap panic
BuildArgv(path, arguments) ==
    IF HasNul(path) \/ \E i \in 1..Len(arguments) : HasNul(arguments[i])
       THEN [panic |-> TRUE, argv |-> <<>>]
       ELSE [panic |-> FALSE, argv |-> <<path>> \o arguments]

\* process.rs 335-367: resolve the executable in a root holding the paths
\* fs, build argv, probe for a pty
ExecuteContainerCommand(fs) ==
    /\ pc["P1"] = "exec" /\ Alive("P1")
    /\ LET path == ResolveCommand(command, fs)
       IN /\ commandPath' = path
          /\ files' = fs
          /\ IF ~Exists(path, fs)
                THEN /\ Return("P1", "ProcessExecution")
                     /\ log' = Append(log, Op("P1", "resolve_command", FALSE))
                     /\ UNCHANGED usePty
                ELSE IF BuildArgv(path, args).panic
                THEN /\ Return("P1", "Panic")
                     /\ log' = log \o <<Op("P1", "resolve_command", TRUE),
                                        Op("P1", "build_argv", FALSE)>>
                     /\ UNCHANGED usePty
                ELSE \E probe \in BOOLEAN :
                     /\ usePty' = probe
                     /\ log' = log \o <<Op("P1", "resolve_command", TRUE),
                                        Op("P1", "openpty_probe", probe)>>
                     /\ pc' = [pc EXCEPT !["P1"] = IF probe THEN "with_pty" ELSE "without_pty"]
                     /\ UNCHANGED runResult
    /\ UNCHANGED <<euidRoot, limits, cgroupV2, sigchldIgnored, status, manager, view,
                   cgDir, cgFiles, cgMembers, childPid,
                   pivotIn, pivotOut, sigVars, envVars, memVars,
                   fsVars, command, args, retryVars, waitVars, handlerVars, ptyVars>>

\* the fork of the user command: the child is a copy of P1
ForkCommand ==
    /\ pc' = [pc EXCEPT !["P1"] = "store", !["P2"] = "child"]
    /\ status' = [status EXCEPT !["P2"] = Running]
    /\ manager' = [manager EXCEPT !["P2"] = manager["P1"]]
    /\ view' = [view EXCEPT !["P2"] = view["P1"]]
    /\ cgMembers' = IF "P1" \in cgMembers THEN cgMembers \cup {"P2"} ELSE cgMembers
    /\ childPidCopy' = childPid

\* process.rs 424-434: open the pty, install the handlers, fork
ExecuteWithPty ==
    /\ pc["P1"] = "with_pty" /\ Alive("P1")
    /\ \E ptyOk \in BOOLEAN, forkOk \in BOOLEAN :
          LET opened == [fd EXCEPT !["master"] = OpenFd("pty.master"),
                                   !["slave"] = OpenFd("pty.slave")]
          IN IF ~ptyOk
             THEN /\ log' = Append(log, Op("P1", "openpty", FALSE))
                  /\ Return("P1", "ProcessExecution")
                  /\ UNCHANGED <<status, manager, view, cgMembers, childPidCopy, fd>>
             ELSE /\ log' = log \o <<Op("P1", "openpty", TRUE), Op("P1", "fork_command", forkOk)>>
                  /\ IF forkOk
                        THEN /\ ForkCommand /\ UNCHANGED runResult
                             /\ fd' = [opened EXCEPT !["child_master"] = OpenFd("pty.master"),
                                                      !["child_slave"] = OpenFd("pty.slave")]
                        ELSE /\ Return("P1", "Nix")
                             /\ fd' = CloseBy("slave", "pty.slave",
                                               CloseBy("master", "pty.master", opened))
                             /\ UNCHANGED <<status, manager, view, cgMembers, childPidCopy>>
    /\ UNCHANGED <<euidRoot, limits, cgroupV2, sigchldIgnored,
                   cgDir, cgFiles, childPid, usePty,
                   pivotIn, pivotOut, sigVars, envVars, memVars,
                   fsVars, cmdVars, retryVars, waitVars, handlerRuns,
                   threads, thread, stdin, inQueue, written, pending, shown>>

\* process.rs 591-602: install the handlers, fork
ExecuteWithoutPty ==
    /\ pc["P1"] = "without_pty" /\ Alive("P1")
    /\ \E forkOk \in BOOLEAN :
          /\ log' = Append(log, Op("P1", "fork_command", forkOk))
          /\ IF forkOk
                THEN ForkCommand /\ UNCHANGED runResult
                ELSE /\ Return("P1", "Nix")
                     /\ UNCHANGED <<status, manager, view, cgMembers, childPidCopy>>
    /\ UNCHANGED <<euidRoot, limits, cgroupV2, sigchldIgnored,
                   cgDir, cgFiles, childPid, usePty,
                   pivotIn, pivotOut, sigVars, envVars, memVars,
                   fsVars, cmdVars, retryVars, waitVars, handlerRuns, ptyVars>>

\* process.rs 466-501 and 618: the parent publishes the pid of the child.
\* On the pty path it then closes its slave, makes the master non-blocking,
\* duplicates it for the stdin thread it spawns, and wraps the master in the
\* File master_out
StoreChildPid ==
    /\ pc["P1"] = "store" /\ Alive("P1")
    /\ childPid' = CmdPid
    /\ pc' = [pc EXCEPT !["P1"] = IF usePty THEN "pump" ELSE "wait_child"]
    /\ IF usePty
          THEN /\ fd' = AlsoOwnedBy("master", "master_out",
                            [CloseBy("slave", "pty.slave", fd)
                                EXCEPT !["master_in"] = OpenFd("master_in")])
               /\ threads' = threads + 1
               /\ thread' = [state |-> "running", why |-> "none", sidesOpen |-> FALSE]
          ELSE UNCHANGED <<fd, threads, thread>>
    /\ UNCHANGED <<euidRoot, limits, cgroupV2, sigchldIgnored, status, manager, view,
                   runResult, cgDir, cgFiles, cgMembers, usePty, log,
                   pivotIn, pivotOut, sigVars, envVars, memVars,
                   fsVars, cmdVars, retryVars, waitVars, handlerVars,
                   stdin, inQueue, written, pending, shown>>

\* process.rs 435-463 and 603-616: the forked child (on the pty path: drops
\* its master, makes the slave its descriptors 0, 1, 2 and drops the slave)
\* resets its signal dispositions and calls execve; a failed execve returns
\* Err into run()
ChildExec ==
    /\ pc["P2"] = "child" /\ Alive("P2")
    /\ \E ok \in BOOLEAN :
          /\ log' = Append(log, Op("P2", "execve", ok))
          /\ IF ok THEN pc' = [pc EXCEPT !["P2"] = "running"] /\ UNCHANGED runResult
                   ELSE Return("P2", "ProcessExecution")
    /\ execEnv' = BuildEnvironment(environ)
    /\ fd' = IF usePty THEN CloseBy("child_slave", "pty.slave",
                                CloseBy("child_master", "pty.master", fd))
                    ELSE fd
    /\ UNCHANGED <<euidRoot, limits, cgroupV2, sigchldIgnored, status, manager, view,
                   cgDir, cgFiles, cgMembers, childPid, usePty,
                   pivotIn, pivotOut, sigVars, environ, memVars,
                   fsVars, cmdVars, retryVars, waitVars, handlerVars,
                   threads, thread, stdin, inQueue, written, pending, shown>>

\* the user command ends: it exits with a code or is killed by a signal
CommandTerminates ==
    /\ pc["P2"] = "running" /\ Alive("P2")
    /\ \E st \in {Exited(n) : n \in ExitCodes} \cup {Signaled(sg) : sg \in KillSignals} :
          status' = [status EXCEPT !["P2"] = st]
    /\ pc' = [pc EXCEPT !["P2"] = "done"]
    /\ UNCHANGED <<euidRoot, limits, cgroupV2, sigchldIgnored, manager, view, runResult,
                   cgDir, cgFiles, cgMembers, childPid, usePty, log,
                   pivotIn, pivotOut, sigVars, envVars, memVars,
                   fsVars, cmdVars, retryVars, waitVars, handlerVars, ptyVars>>

\* a waitpid call of P1 that returned the terminal status of the command has
\* collected (reaped) it
Collected(w) ==
    IF w.kind \in {"exited", "signaled"} THEN <<Op("P1", "reap", TRUE)>> ELSE <<>>

\* StatusResult taking every normal exit for a success
StatusResultAnyExit(w) ==
    IF w.kind = "exited" THEN "Ok" ELSE "ProcessExecution"

\* the result a terminal wait status is turned into (process.rs 506-532,
\* 567-582, 631-645)
StatusResult(w) ==
    IF w.kind = "exited" /\ w.code = 0 THEN "Ok" ELSE "ProcessExecution"

\* PumpLeaves with a pump that stops at any iteration
PumpLeavesAnyway == TRUE

\* process.rs 505-542: an iteration of the pump leaves the loop only when
\* its waitpid(WNOHANG) gave Exited, Signaled or ECHILD, which it does once
\* the child has terminated; there is no other exit and no timeout
PumpLeaves == Terminated("P2")

\* process.rs 503-542: the iteration of the pump loop in which the
\* waitpid(WNOHANG) finds the child terminated.  On Exited what is still
\* readable from the master is copied to stdout before the return
\* (508-514); on Signaled the function returns at once (526-532); on ECHILD
\* the loop is left
PumpWait ==
    /\ pc["P1"] = "pump" /\ Alive("P1")
    /\ PumpLeaves
    /\ LET w == WaitResult("P2")
       IN /\ IF w.kind = "ECHILD"
                THEN /\ pc' = [pc EXCEPT !["P1"] = "final_wait"]
                     /\ UNCHANGED <<childPid, runResult, fd>>
                ELSE /\ childPid' = 0
                     /\ Return("P1", StatusResult(w))
                     /\ fd' = ReturnFromPty(fd)
          /\ IF w.kind = "exited"
                THEN shown' = shown + pending /\ pending' = 0
                ELSE UNCHANGED <<shown, pending>>
    /\ log' = log \o Collected(WaitResult("P2"))
    /\ UNCHANGED <<euidRoot, limits, cgroupV2, sigchldIgnored, status, manager, view,
                   cgDir, cgFiles, cgMembers, usePty,
                   pivotIn, pivotOut, sigVars, envVars, memVars,
                   fsVars, cmdVars, retryVars, waitVars, handlerVars,
                   threads, thread, stdin, inQueue, written>>

\* process.rs 544-562: the iteration of the pump loop in which the child is
\* still alive: what is readable from the master is copied to stdout (with
\* nothing to read the loop sleeps and goes round)
PumpRead ==
    /\ pc["P1"] = "pump" /\ Alive("P1")
    /\ Alive("P2")
    /\ pending > 0
    /\ shown' = shown + pending
    /\ pending' = 0
    /\ UNCHANGED <<euidRoot, limits, cgroupV2, sigchldIgnored, pc, status, manager, view,
                   runResult, cgDir, cgFiles, cgMembers, childPid, usePty, log,
                   pivotIn, pivotOut, sigVars, envVars, memVars,
                   fsVars, cmdVars, retryVars, waitVars, handlerVars,
                   fd, threads, thread, stdin, inQueue, written>>

\* process.rs 565-586: the blocking wait after the loop was left
FinalWait ==
    /\ pc["P1"] = "final_wait" /\ Alive("P1")
    /\ Terminated("P2")
    /\ LET w == WaitResult("P2")
       IN IF w.kind \in {"exited", "signaled"}
             THEN /\ childPid' = 0
                  /\ Return("P1", StatusResult(w))
             ELSE /\ UNCHANGED childPid
                  /\ Return("P1", "Ok")
    /\ fd' = ReturnFromPty(fd)
    /\ log' = log \o Collected(WaitResult("P2"))
    /\ UNCHANGED <<euidRoot, limits, cgroupV2, sigchldIgnored, status, manager, view,
                   cgDir, cgFiles, cgMembers, usePty,
                   pivotIn, pivotOut, sigVars, envVars, memVars,
                   fsVars, cmdVars, retryVars, waitVars, handlerVars,
                   threads, thread, stdin, inQueue, written, pending, shown>>

\* process.rs 480-496: one round of the loop of the stdin thread.  A read
\* of stdin that gives EOF or an error ends the thread; bytes read are
\* written to the duplicate of the master with write_all, and an error of
\* that write ends the thread.  The duplicate shares the O_NONBLOCK flag set
\* on the master (474-479), so the write fails with EAGAIN when the pty
\* cannot take the bytes because the command has not read the earlier ones;
\* once the command has ended the write may fail as well (the slave side is
\* closed).  When the thread ends its File closes the duplicate.
StdinThread ==
    /\ thread.state = "running" /\ Alive("P1")
    /\ LET Ends(why) ==
               /\ thread' = [state |-> "ended", why |-> why,
                             sidesOpen |-> stdin = "open" /\ Alive("P2")]
               /\ fd' = CloseBy("master_in", "master_in", fd)
               /\ UNCHANGED inQueue
       IN CASE stdin = "eof" -> Ends("eof")
            [] stdin = "error" -> Ends("read_error")
            [] OTHER ->
                 IF inQueue >= QueueCap
                    THEN Ends("write_error")
                    ELSE \E ok \in BOOLEAN :
                           IF ok \/ Alive("P2")
                              THEN /\ inQueue' = inQueue + 1
                                   /\ UNCHANGED <<thread, fd>>
                              ELSE Ends("write_error")
    /\ UNCHANGED <<euidRoot, limits, cgroupV2, sigchldIgnored, pc, status, manager, view,
                   runResult, cgDir, cgFiles, cgMembers, childPid, usePty, log,
                   pivotIn, pivotOut, sigVars, envVars, memVars,
                   fsVars, cmdVars, retryVars, waitVars, handlerVars,
                   threads, stdin, written, pending, shown>>

\* host stdin reaches its end or fails
StdinCloses ==
    /\ stdin = "open"
    /\ \E how \in {"eof", "error"} : stdin' = how
    /\ UNCHANGED <<euidRoot, limits, cgroupV2, sigchldIgnored, pc, status, manager, view,
                   runResult, cgDir, cgFiles, cgMembers, childPid, usePty, log,
                   pivotIn, pivotOut, sigVars, envVars, memVars,
                   fsVars, cmdVars, retryVars, waitVars, handlerVars,
                   fd, threads, thread, inQueue, written, pending, shown>>

\* the command writes a byte to its terminal (the slave of the pty)
CommandWrites ==
    /\ pc["P2"] = "running" /\ Alive("P2") /\ usePty
    /\ written < MaxBytes
    /\ written' = written + 1
    /\ pending' = pending + 1
    /\ UNCHANGED <<euidRoot, limits, cgroupV2, sigchldIgnored, pc, status, manager, view,
                   runResult, cgDir, cgFiles, cgMembers, childPid, usePty, log,
                   pivotIn, pivotOut, sigVars, envVars, memVars,
                   fsVars, cmdVars, retryVars, waitVars, handlerVars,
                   fd, threads, thread, stdin, inQueue, shown>>

\* the command reads a byte from its terminal
CommandReads ==
    /\ pc["P2"] = "running" /\ Alive("P2") /\ usePty
    /\ inQueue > 0
    /\ inQueue' = inQueue - 1
    /\ UNCHANGED <<euidRoot, limits, cgroupV2, sigchldIgnored, pc, status, manager, view,
                   runResult, cgDir, cgFiles, cgMembers, childPid, usePty, log,
                   pivotIn, pivotOut, sigVars, envVars, memVars,
                   fsVars, cmdVars, retryVars, waitVars, handlerVars,
                   fd, threads, thread, stdin, written, pending, shown>>

\* process.rs 617-625 with wait_for_child 628-656: the atomic is cleared
\* only when wait_for_child returned Ok
WaitForChild ==
    /\ pc["P1"] = "wait_child" /\ Alive("P1")
    /\ Terminated("P2")
    /\ LET w == WaitResult("P2")
       IN IF w.kind \in {"exited", "signaled"} /\ StatusResult(w) = "Ok"
             THEN /\ childPid' = 0
                  /\ Return("P1", "Ok")
             ELSE /\ UNCHANGED childPid
                  /\ Return("P1", "ProcessExecution")
    /\ log' = log \o Collected(WaitResult("P2"))
    /\ UNCHANGED <<euidRoot, limits, cgroupV2, sigchldIgnored, status, manager, view,
                   cgDir, cgFiles, cgMembers, usePty,
                   pivotIn, pivotOut, sigVars, envVars, memVars,
                   fsVars, cmdVars, retryVars, waitVars, handlerVars, ptyVars>>

\* ------------------------------------------------------- cgroup teardown
\* PathExists without the test of the directory: cleanup() goes on to the
\* kill step whether or not the group is still there
PathExistsUnchecked(p) == cgroupV2 /\ view[p] = "host"

\* the path cleanup() tests with path.exists(): the cgroup filesystem is
\* mounted in the host view only, a pivoted process sees the rootfs
PathExists(p) == cgroupV2 /\ cgDir /\ view[p] = "host"

\* the members a kill of the whole group by p ends: every live member, but
\* the init of the pid namespace is immune to a SIGKILL sent from inside it
KillVictims(p) ==
    {m \in cgMembers : Alive(m) /\ ~(m = "P1" /\ p # "P0")}

\* cgroup.rs 189-200: the loop of delete_with_retry after `attempts` failed
\* attempts, the next sleep being delay ms: rmdir is tried, and when it
\* fails the thread sleeps for delay, which is then multiplied by the
\* number of attempts made and cut to the ceiling.  busy is the number of
\* attempts the kernel answers with EBUSY before one succeeds.
RECURSIVE RetryLoop(_, _, _, _, _, _, _)
RetryLoop(p, retries, ceiling, busy, attempts, delay, acc) ==
    IF attempts >= retries THEN [ops |-> acc.ops, sleeps |-> acc.sleeps, ok |-> FALSE]
    ELSE IF attempts >= busy
       THEN [ops |-> Append(acc.ops, Op(p, "rmdir_cgroup", TRUE)),
             sleeps |-> acc.sleeps, ok |-> TRUE]
       ELSE LET n == attempts + 1
                d == delay * n
            IN RetryLoop(p, retries, ceiling, busy, n,
                         IF ceiling # NoCeiling /\ d > ceiling THEN ceiling ELSE d,
                         [ops |-> Append(acc.ops, Op(p, "rmdir_cgroup", FALSE)),
                          sleeps |-> Append(acc.sleeps, delay)])

\* DeleteWithRetry returning Ok when the retries are used up
DeleteWithRetryNoError(p, retries, ceiling, busy) ==
    LET r == RetryLoop(p, retries, ceiling, busy, 0, InitialDelayMs,
                       [ops |-> <<>>, sleeps |-> <<>>])
    IN [ops |-> r.ops, sleeps |-> r.sleeps, ok |-> TRUE, result |-> "Ok"]

\* cgroup.rs 179-205: rmdir is tried up to retries times; when none
\* succeeded the io::Error "could not delete" is returned through
\* err.into(), which makes it a ContainerError::Io (error.rs 6-10)
DeleteWithRetry(p, retries, ceiling, busy) ==
    LET r == RetryLoop(p, retries, ceiling, busy, 0, InitialDelayMs,
                       [ops |-> <<>>, sleeps |-> <<>>])
    IN [ops |-> r.ops, sleeps |-> r.sleeps, ok |-> r.ok,
        result |-> IF r.ok THEN "Ok" ELSE "Io"]

\* the pids of cgroup.procs in the order they are read (ascending)
ProcOrder == <<"P0", "P1", "P2">>
KillOp(m) == CASE m = "P0" -> "kill_P0" [] m = "P1" -> "kill_P1" [] OTHER -> "kill_P2"

\* cgroup.rs 123-128: SIGKILL to each pid read from cgroup.procs, in order.
\* The kill of a pid whose process has ended since the read (gone) fails
\* with ESRCH and `?` returns that error: no later pid is signalled.  A
\* caller that kills itself does not get any further either.
RECURSIVE KillEach(_, _, _, _)
KillEach(p, pids, gone, acc) ==
    IF pids = <<>> THEN [ops |-> acc.ops, victims |-> acc.victims, ok |-> TRUE]
    ELSE LET m == Head(pids)
         IN IF m \in gone
               THEN [ops |-> Append(acc.ops, Op(p, KillOp(m), FALSE)),
                     victims |-> acc.victims, ok |-> FALSE]
            ELSE LET dies == m \in KillVictims(p)
                     now == [ops |-> Append(acc.ops, Op(p, KillOp(m), TRUE)),
                             victims |-> IF dies THEN acc.victims \cup {m}
                                                 ELSE acc.victims]
                 IN IF m = p /\ dies
                       THEN [ops |-> now.ops, victims |-> now.victims, ok |-> TRUE]
                       ELSE KillEach(p, Tail(pids), gone, now)

\* the members of the group that may end on their own while cleanup() runs
\* in p: attached processes that are not part of the run
MayBeGone(p) == {m \in cgMembers : Alive(m) /\ m # p /\ pc[m] = "none"}

\* cgroup.rs 113-134: kill the members (cgroup.kill, or SIGKILL to each pid
\* of cgroup.procs), then delete with retry; `?` on the kill step.
\* Yields the operations issued, the members killed and the members that
\* ended on their own, whether the directory is gone, the result, and the
\* delete_with_retry call made.
\* `returns` is FALSE when the caller is among the members it killed.
\* On cgroup v1 the path of the manager is /sys/fs/cgroup itself (cgroup.rs
\* 76), which has neither cgroup.kill nor cgroup.procs: the read fails.
Cleanup(p, hasKillFile, killOk, gone, busy) ==
    LET Listed(m) == m \in cgMembers /\ Alive(m)
        kl == IF hasKillFile
                 THEN [ops |-> <<Op(p, "cgroup.kill", killOk)>>,
                       victims |-> IF killOk THEN KillVictims(p) ELSE {},
                       ok |-> killOk]
              ELSE IF ~killOk
                 THEN [ops |-> <<Op(p, "read_procs", FALSE)>>, victims |-> {},
                       ok |-> FALSE]
              ELSE KillEach(p, SelectSeq(ProcOrder, Listed), gone,
                            [ops |-> <<Op(p, "read_procs", TRUE)>>, victims |-> {}])
        left == {m \in cgMembers : Alive(m)} \ (kl.victims \cup gone)
        never == IF left = {} THEN busy ELSE DeleteRetries
        del == DeleteWithRetry(p, DeleteRetries, CleanupCeilingMs, never)
        none == [ops |-> <<>>, victims |-> {}, gone |-> {}, removed |-> FALSE,
                 ok |-> TRUE, returns |-> TRUE, err |-> "none", deletes |-> FALSE,
                 retryIn |-> NoRetryIn, retryOut |-> NoRetryOut]
    IN IF ~cgroupV2 /\ view[p] = "host"
          THEN [none EXCEPT !.ops = <<Op(p, "read_procs", FALSE)>>,
                            !.ok = FALSE, !.err = "Cgroup"]
       ELSE IF ~PathExists(p)
          THEN none
       ELSE IF ~kl.ok
          THEN [none EXCEPT !.ops = kl.ops, !.victims = kl.victims, !.gone = gone,
                            !.ok = FALSE,
                            !.err = IF hasKillFile \/ ~killOk THEN "Cgroup" ELSE "Nix"]
       ELSE IF p \in kl.victims
          THEN [none EXCEPT !.ops = kl.ops, !.victims = kl.victims, !.gone = gone,
                            !.ok = FALSE, !.returns = FALSE]
       ELSE [none EXCEPT !.ops = kl.ops \o del.ops, !.victims = kl.victims,
                         !.gone = gone,
                         !.removed = "rmdir_cgroup" \in Succeeded(del.ops),
                         !.ok = del.ok, !.err = IF del.ok THEN "none" ELSE del.result,
                         !.deletes = TRUE,
                         !.retryIn = [retries |-> DeleteRetries,
                                      ceiling |-> CleanupCeilingMs,
                                      busy |-> never, by |-> "cleanup"],
                         !.retryOut = [ops |-> del.ops, sleeps |-> del.sleeps,
                                       result |-> del.result]]

\* the inputs of one cleanup() call by p: whether cgroup.kill exists,
\* whether the write to it (or the read of cgroup.procs) succeeds, the
\* members that end between the read and their kill, the busy answers
CleanupInputs(p) ==
    { i \in [hasKillFile : BOOLEAN, killOk : BOOLEAN,
              gone : SUBSET MayBeGone(p), busy : 0..DeleteRetries] :
          (i.hasKillFile \/ ~i.killOk) => i.gone = {} }

\* the effect of one call of cleanup() by p on the log, the members and the
\* directory; the return of the call is logged with its result
CallCleanup(p, c) ==
    /\ log' = log \o c.ops \o (IF c.returns THEN <<Op(p, "cleanup", c.ok)>> ELSE <<>>)
    /\ status' = [m \in Procs |->
                     IF m \in c.victims THEN Signaled(SIGKILL)
                     ELSE IF m \in c.gone THEN Exited(0)
                     ELSE status[m]]
    /\ cgDir' = (cgDir /\ ~c.removed)
    /\ retryIn' = IF c.deletes THEN c.retryIn ELSE retryIn
    /\ retryOut' = IF c.deletes THEN c.retryOut ELSE retryOut

\* DropManager re-raising the error of a failed cleanup as the result of run()
DropManagerRaises(p) ==
    /\ pc[p] = "ret" /\ Alive(p)
    /\ IF ~manager[p]
          THEN /\ pc' = [pc EXCEPT ![p] = "main"]
               /\ UNCHANGED <<status, manager, cgDir, log, runResult, retryVars>>
          ELSE \E i \in CleanupInputs(p) :
                 LET c == Cleanup(p, i.hasKillFile, i.killOk, i.gone, i.busy)
                 IN /\ CallCleanup(p, c)
                    /\ manager' = [manager EXCEPT ![p] = FALSE]
                    /\ runResult' = [runResult EXCEPT ![p] = IF c.ok THEN @ ELSE "Cgroup"]
                    /\ pc' = [pc EXCEPT ![p] = IF p \in c.victims THEN "done" ELSE "main"]
    /\ UNCHANGED <<euidRoot, limits, cgroupV2, sigchldIgnored, view,
                   cgFiles, cgMembers, childPid, usePty,
                   pivotIn, pivotOut, sigVars, envVars, memVars,
                   fsVars, cmdVars, waitVars, handlerVars, ptyVars>>

\* main.rs 37-95 with cgroup.rs 307-314: run() returns (or unwinds) in p and
\* the CgroupManager it holds, if any, is dropped; a failed cleanup is only
\* logged.  A process killed by its own cleanup does not go on.
DropManager(p) ==
    /\ pc[p] = "ret" /\ Alive(p)
    /\ IF ~manager[p]
          THEN /\ pc' = [pc EXCEPT ![p] = "main"]
               /\ UNCHANGED <<status, manager, cgDir, log, retryVars>>
          ELSE \E i \in CleanupInputs(p) :
                 LET c == Cleanup(p, i.hasKillFile, i.killOk, i.gone, i.busy)
                 IN /\ CallCleanup(p, c)
                    /\ manager' = [manager EXCEPT ![p] = FALSE]
                    /\ pc' = [pc EXCEPT ![p] = IF p \in c.victims THEN "done" ELSE "main"]
    /\ UNCHANGED <<euidRoot, limits, cgroupV2, sigchldIgnored, view, runResult,
                   cgFiles, cgMembers, childPid, usePty,
                   pivotIn, pivotOut, sigVars, envVars, memVars,
                   fsVars, cmdVars, waitVars, handlerVars, ptyVars>>

\* main.rs 31-35: exit code of the process for the result of run(); a panic
\* ends the process with the code of the Rust runtime
MainExitCode(r) ==
    CASE r = "Ok" -> 0
      [] r = "Panic" -> PanicExitCode
      [] OTHER -> ErrorExitCode

MainExit(p) ==
    /\ pc[p] = "main" /\ Alive(p)
    /\ status' = [status EXCEPT ![p] = Exited(MainExitCode(runResult[p]))]
    /\ pc' = [pc EXCEPT ![p] = "done"]
    /\ UNCHANGED <<euidRoot, limits, cgroupV2, sigchldIgnored, manager, view, runResult,
                   cgDir, cgFiles, cgMembers, childPid, usePty, log,
                   pivotIn, pivotOut, sigVars, envVars, memVars,
                   fsVars, cmdVars, retryVars, waitVars, handlerVars, ptyVars>>

\* ----------------------------------------------------------- environment
\* the container init is killed from outside while the command runs (OOM
\* killer, kill -9 on the host); the kernel then kills what is left in its
\* pid namespace
ExternalKill ==
    /\ Alive("P1") /\ Alive("P2")
    /\ pc["P1"] \in {"pump", "wait_child"}
    /\ status' = [m \in Procs |->
                     IF m \in {"P1", "P2"} THEN Signaled(SIGKILL) ELSE status[m]]
    /\ UNCHANGED <<euidRoot, limits, cgroupV2, sigchldIgnored, pc, manager, view,
                   runResult, cgDir, cgFiles, cgMembers, childPid, usePty, log,
                   pivotIn, pivotOut, sigVars, envVars, memVars,
                   fsVars, cmdVars, retryVars, waitVars, handlerVars, ptyVars>>

Next ==
    \/ CheckRoot
    \/ CgroupSetup
    \/ AddProcess
    \/ Unshare
    \/ EnterPidNamespace
    \/ ParentWait
    \/ SetHostname
    \/ SetupFilesystem
    \/ \E fs \in LookupFew : ExecuteContainerCommand(fs)
    \/ ExecuteWithPty
    \/ ExecuteWithoutPty
    \/ StoreChildPid
    \/ ChildExec
    \/ CommandTerminates
    \/ PumpWait
    \/ FinalWait
    \/ WaitForChild
    \/ \E p \in Procs : DropManager(p)
    \/ \E p \in Procs : MainExit(p)
    \/ ExternalKill

Spec == Init /\ [][Next]_vars

\* ---------------------------------------------- pivot_root on its own
\* pivot_root applied to every combination of failing calls
InitPivot ==
    /\ euidRoot = TRUE
    /\ limits = {}
    /\ cgroupV2 = TRUE
    /\ sigchldIgnored = FALSE
    /\ Boot
    /\ environ = HostVars
    /\ memoryMb = U64(64, 0, 0, 0)
    /\ pivotIn \in [oldroot : BOOLEAN, failing : SUBSET Range(PivotRootSteps(FALSE))]
    /\ pivotOut = NoPivot

ApplyPivotRoot ==
    /\ ~pivotOut.done
    /\ LET r == PivotRoot(pivotIn.oldroot, pivotIn.failing)
       IN pivotOut' = [ops |-> r.ops, ok |-> r.ok, done |-> TRUE]
    /\ UNCHANGED <<euidRoot, limits, cgroupV2, sigchldIgnored, pc, status, manager, view,
                   runResult, cgDir, cgFiles, cgMembers, childPid, usePty, log, pivotIn,
                   sigVars, envVars, memVars,
                   fsVars, cmdVars, retryVars, waitVars, handlerVars, ptyVars>>

NextPivot == ApplyPivotRoot

SpecPivot == InitPivot /\ [][NextPivot]_vars

\* ------------------------------- execute_container_command on its own
\* process.rs 322-329: handle_signal run by P1 for a delivery of sig: the
\* signal is passed on to the pid in CHILD_PID if that is positive.  A
\* command that receives the signal dies of it or handles it.  A blocking
\* waitpid the handler interrupted (wait_for_child) is restarted by the
\* kernel or returns EINTR, depending on the flags signal() installs the
\* handler with; on EINTR the loop calls waitpid again (process.rs 647).
\* HandlerKills without the test of the value
HandlerKillsAlways(value) == TRUE

\* process.rs 323-324: the handler goes on to kill only for a positive value
\* of the atomic
HandlerKills(value) == value > 0

\* DeliverSignal with a handler that clears the atomic
DeliverSignalClears ==
    /\ Alive("P1")
    /\ pc["P1"] \in {"store", "pump", "final_wait", "wait_child"}
    /\ Len(delivered) + Cardinality(handlerRuns) < MaxSignals
    /\ \E sig \in HandledSignals :
          /\ delivered' = Append(delivered, sig)
          /\ IF HandlerKills(childPid)
                THEN /\ forwarded' = Append(forwarded, sig)
                     /\ \E dies \in BOOLEAN :
                           IF dies /\ Alive("P2")
                              THEN /\ status' = [status EXCEPT !["P2"] = Signaled(sig)]
                                   /\ pc' = [pc EXCEPT !["P2"] = "done"]
                              ELSE UNCHANGED <<status, pc>>
                ELSE UNCHANGED <<forwarded, status, pc>>
    /\ childPid' = 0
    /\ \E restarted \in BOOLEAN :
          IF pc["P1"] = "wait_child" /\ ~restarted
             THEN interrupts' = interrupts + 1
             ELSE UNCHANGED interrupts
    /\ UNCHANGED <<euidRoot, limits, cgroupV2, sigchldIgnored, manager, view,
                   runResult, cgDir, cgFiles, cgMembers, usePty, log,
                   pivotIn, pivotOut, envVars, memVars,
                   fsVars, cmdVars, retryVars, reports, handlerVars, ptyVars>>

DeliverSignal ==
    /\ Alive("P1")
    /\ pc["P1"] \in {"store", "pump", "final_wait", "wait_child"}
    /\ Len(delivered) + Cardinality(handlerRuns) < MaxSignals
    /\ \E sig \in HandledSignals :
          /\ delivered' = Append(delivered, sig)
          /\ IF HandlerKills(childPid)
                THEN /\ forwarded' = Append(forwarded, sig)
                     /\ \E dies \in BOOLEAN :
                           IF dies /\ Alive("P2")
                              THEN /\ status' = [status EXCEPT !["P2"] = Signaled(sig)]
                                   /\ pc' = [pc EXCEPT !["P2"] = "done"]
                              ELSE UNCHANGED <<status, pc>>
                ELSE UNCHANGED <<forwarded, status, pc>>
    /\ \E restarted \in BOOLEAN :
          IF pc["P1"] = "wait_child" /\ ~restarted
             THEN interrupts' = interrupts + 1
             ELSE UNCHANGED interrupts
    /\ UNCHANGED <<euidRoot, limits, cgroupV2, sigchldIgnored, manager, view,
                   runResult, cgDir, cgFiles, cgMembers, childPid, usePty, log,
                   pivotIn, pivotOut, envVars, memVars,
                   fsVars, cmdVars, retryVars, reports, handlerVars, ptyVars>>

\* handle_signal (process.rs 322-329) run by p for a signal that arrives
\* while the handler is installed in p and p is not in the pump or in a
\* wait: in P1 after execute_with_pty or execute_without_pty has returned
\* (the handlers are installed before the fork, 429-431 and 597-599, and
\* never removed), in P2 between the fork and the reset of the dispositions
\* (453-457, 606-610).  The handler reads the atomic in the memory of p.  A
\* kill issued for the pid of a child that was reaped already is stale.
HandlerInstalled(p) ==
    IF p = "P1" THEN pc["P1"] \in {"ret", "main"} /\ Did("fork_command")
                ELSE pc["P2"] = "child"

DeliverSignalOutsideWait(p) ==
    /\ Alive(p) /\ HandlerInstalled(p)
    /\ Len(delivered) + Cardinality(handlerRuns) < MaxSignals
    /\ LET value == IF p = "P1" THEN childPid ELSE childPidCopy
           run == [p |-> p, value |-> value, kill |-> HandlerKills(value),
                   stale |-> HandlerKills(value) /\ Did("reap")]
       IN /\ run \notin handlerRuns
          /\ handlerRuns' = handlerRuns \cup {run}
    /\ UNCHANGED <<euidRoot, limits, cgroupV2, sigchldIgnored, pc, status, manager, view,
                   runResult, cgDir, cgFiles, cgMembers, childPid, usePty, log,
                   pivotIn, pivotOut, sigVars, envVars, memVars,
                   fsVars, cmdVars, retryVars, waitVars, childPidCopy, ptyVars>>

\* the process p waits for, and where p is while it blocks in waitpid
WaitedChild(p) == IF p = "P0" THEN "P1" ELSE "P2"
WaitingAt(p) == IF p = "P0" THEN "wait" ELSE "wait_child"

\* WaitReport with the waiting process exiting with code 1 on the report
WaitReportExits(p) ==
    /\ Alive(p) /\ pc[p] = WaitingAt(p)
    /\ Alive(WaitedChild(p))
    /\ reports["P0"] + reports["P1"] < MaxReports
    /\ reports' = [reports EXCEPT ![p] = @ + 1]
    /\ status' = [status EXCEPT ![p] = Exited(ErrorExitCode)]
    /\ pc' = [pc EXCEPT ![p] = "done"]
    /\ UNCHANGED <<euidRoot, limits, cgroupV2, sigchldIgnored, manager, view,
                   runResult, cgDir, cgFiles, cgMembers, childPid, usePty, log,
                   pivotIn, pivotOut, sigVars, envVars, memVars,
                   fsVars, cmdVars, retryVars, interrupts, handlerVars, ptyVars>>

\* namespace.rs 88-95 and process.rs 646: waitpid reports that the child (a
\* traced one, as waitpid is called without WUNTRACED) has stopped or
\* continued; the loop of the waiting process goes round again
WaitReport(p) ==
    /\ Alive(p) /\ pc[p] = WaitingAt(p)
    /\ Alive(WaitedChild(p))
    /\ reports["P0"] + reports["P1"] < MaxReports
    /\ reports' = [reports EXCEPT ![p] = @ + 1]
    /\ UNCHANGED <<euidRoot, limits, cgroupV2, sigchldIgnored, pc, status, manager, view,
                   runResult, cgDir, cgFiles, cgMembers, childPid, usePty, log,
                   pivotIn, pivotOut, sigVars, envVars, memVars,
                   fsVars, cmdVars, retryVars, interrupts, handlerVars, ptyVars>>

\* the container init about to call execute_container_command (main.rs 85):
\* the parent of the intermediate fork waits, the init has pivoted; the log
\* holds the operations of the call only
InitExec ==
    /\ euidRoot = TRUE
    /\ limits = {}
    /\ cgroupV2 = TRUE
    /\ sigchldIgnored \in BOOLEAN
    /\ pc = [p \in Procs |-> CASE p = "P0" -> "wait" [] p = "P1" -> "exec"
                                 [] OTHER -> "none"]
    /\ status = [p \in Procs |-> IF p = "P2" THEN Unborn ELSE Running]
    /\ manager = [p \in Procs |-> FALSE]
    /\ view = [p \in Procs |-> IF p = "P1" THEN "container" ELSE "host"]
    /\ runResult = [p \in Procs |-> "none"]
    /\ cgDir = FALSE
    /\ cgFiles = {}
    /\ cgMembers = {}
    /\ childPid = 0
    /\ usePty = FALSE
    /\ log = <<>>
    /\ delivered = <<>>
    /\ forwarded = <<>>
    /\ environ \in SUBSET HostVars
    /\ execEnv = {}
    /\ memoryMb = U64(64, 0, 0, 0)
    /\ memoryMax = <<>>
    /\ pivotIn = [oldroot |-> FALSE, failing |-> {}]
    /\ rootfsBefore = {}
    /\ rootfsDirs = {}
    /\ command = <<"sh">>
    /\ args = <<>>
    /\ files = {}
    /\ commandPath = <<>>
    /\ retryIn = NoRetryIn
    /\ retryOut = NoRetryOut
    /\ reports = [p \in Procs |-> 0]
    /\ interrupts = 0
    /\ NoHandlerRuns
    /\ NoPty
    /\ pivotOut = NoPivot

NextExec ==
    \/ \E fs \in LookupFew : ExecuteContainerCommand(fs)
    \/ ExecuteWithPty
    \/ ExecuteWithoutPty
    \/ StoreChildPid
    \/ ChildExec
    \/ CommandTerminates
    \/ DeliverSignal
    \/ \E p \in {"P1", "P2"} : DeliverSignalOutsideWait(p)
    \/ \E p \in {"P0", "P1"} : WaitReport(p)
    \/ PumpWait
    \/ FinalWait
    \/ WaitForChild
    \/ \E p \in Procs : DropManager(p)
    \/ \E p \in Procs : MainExit(p)
    \/ ParentWait
    \/ ExternalKill

SpecExec == InitExec /\ [][NextExec]_vars

\* the blocking waitpid of wait_for_child returns once the child has
\* terminated and the process goes on
SpecExecFair == SpecExec /\ WF_vars(WaitForChild)

\* --------------------------------------------- execute_with_pty on its own
\* the container init about to call execute_with_pty (process.rs 363): the
\* command was resolved and the probe found a pty
InitPty ==
    /\ euidRoot = TRUE
    /\ limits = {}
    /\ cgroupV2 = TRUE
    /\ sigchldIgnored \in BOOLEAN
    /\ pc = [p \in Procs |-> CASE p = "P0" -> "wait" [] p = "P1" -> "with_pty"
                                 [] OTHER -> "none"]
    /\ status = [p \in Procs |-> IF p = "P2" THEN Unborn ELSE Running]
    /\ manager = [p \in Procs |-> FALSE]
    /\ view = [p \in Procs |-> IF p = "P1" THEN "container" ELSE "host"]
    /\ runResult = [p \in Procs |-> "none"]
    /\ cgDir = FALSE
    /\ cgFiles = {}
    /\ cgMembers = {}
    /\ childPid = 0
    /\ usePty = TRUE
    /\ log = <<>>
    /\ delivered = <<>>
    /\ forwarded = <<>>
    /\ environ = HostVars
    /\ execEnv = {}
    /\ memoryMb = U64(64, 0, 0, 0)
    /\ memoryMax = <<>>
    /\ pivotIn = [oldroot |-> FALSE, failing |-> {}]
    /\ rootfsBefore = {}
    /\ rootfsDirs = {}
    /\ command = <<"sh">>
    /\ args = <<>>
    /\ files = {BinSh}
    /\ commandPath = BinSh
    /\ retryIn = NoRetryIn
    /\ retryOut = NoRetryOut
    /\ reports = [p \in Procs |-> 0]
    /\ interrupts = 0
    /\ NoHandlerRuns
    /\ NoPty
    /\ pivotOut = NoPivot

NextPty ==
    \/ ExecuteWithPty
    \/ StoreChildPid
    \/ ChildExec
    \/ CommandWrites
    \/ CommandReads
    \/ CommandTerminates
    \/ PumpRead
    \/ PumpWait
    \/ FinalWait
    \/ StdinThread
    \/ StdinCloses
    \/ \E p \in Procs : DropManager(p)
    \/ \E p \in Procs : MainExit(p)
    \/ ParentWait

SpecPty == InitPty /\ [][NextPty]_vars

\* the main thread of P1 keeps running: an iteration of the pump that finds
\* the child terminated, and the return of the final waitpid, do happen
SpecPtyFair == SpecPty /\ WF_vars(PumpWait) /\ WF_vars(FinalWait)

\* ------------------------------------------- the lookup on its own
\* execute_container_command called (as in InitExec) with any of the
\* commands and argument lists, in a root holding any of the paths
InitResolve ==
    /\ euidRoot = TRUE
    /\ limits = {}
    /\ cgroupV2 = TRUE
    /\ sigchldIgnored \in BOOLEAN
    /\ pc = [p \in Procs |-> CASE p = "P0" -> "wait" [] p = "P1" -> "exec"
                                 [] OTHER -> "none"]
    /\ status = [p \in Procs |-> IF p = "P2" THEN Unborn ELSE Running]
    /\ manager = [p \in Procs |-> FALSE]
    /\ view = [p \in Procs |-> IF p = "P1" THEN "container" ELSE "host"]
    /\ runResult = [p \in Procs |-> "none"]
    /\ cgDir = FALSE
    /\ cgFiles = {}
    /\ cgMembers = {}
    /\ childPid = 0
    /\ usePty = FALSE
    /\ log = <<>>
    /\ delivered = <<>>
    /\ forwarded = <<>>
    /\ environ = HostVars
    /\ execEnv = {}
    /\ memoryMb = U64(64, 0, 0, 0)
    /\ memoryMax = <<>>
    /\ pivotIn = [oldroot |-> FALSE, failing |-> {}]
    /\ rootfsBefore = {}
    /\ rootfsDirs = {}
    /\ command \in Commands
    /\ args \in ArgLists
    /\ files = {}
    /\ commandPath = <<>>
    /\ retryIn = NoRetryIn
    /\ retryOut = NoRetryOut
    /\ reports = [p \in Procs |-> 0]
    /\ interrupts = 0
    /\ NoHandlerRuns
    /\ NoPty
    /\ pivotOut = NoPivot

NextResolve ==
    \/ \E fs \in SUBSET LookupPaths : ExecuteContainerCommand(fs)
    \/ ExecuteWithPty
    \/ ExecuteWithoutPty
    \/ StoreChildPid
    \/ ChildExec
    \/ CommandTerminates
    \/ PumpWait
    \/ FinalWait
    \/ WaitForChild
    \/ \E p \in Procs : DropManager(p)
    \/ \E p \in Procs : MainExit(p)
    \/ ParentWait

SpecResolve == InitResolve /\ [][NextResolve]_vars

\* ------------------------------------------ the cgroup manager on its own
\* A CgroupManager used through its public methods by a process P0 that
\* stays in the mount view the group was created in: setup, add_process
\* for any of the processes, explicit cleanup() calls, and the drop.
\* the configurations the manager is tried with: one limit, or all of them
ApiLimits == {{"memory"}, {"pids"}, Limits}

InitCgroup ==
    /\ euidRoot = TRUE
    /\ limits \in ApiLimits
    /\ cgroupV2 \in BOOLEAN
    /\ sigchldIgnored = FALSE
    /\ pc = [p \in Procs |-> IF p = "P0" THEN "cgroup" ELSE "none"]
    /\ status = [p \in Procs |-> Running]
    /\ manager = [p \in Procs |-> FALSE]
    /\ view = [p \in Procs |-> "host"]
    /\ runResult = [p \in Procs |-> "none"]
    /\ cgDir = FALSE
    /\ cgFiles = {}
    /\ cgMembers = {}
    /\ childPid = 0
    /\ usePty = FALSE
    /\ log = <<>>
    /\ delivered = <<>>
    /\ forwarded = <<>>
    /\ environ = HostVars
    /\ execEnv = {}
    /\ memoryMb \in (IF "memory" \in limits THEN MemoryInputs ELSE {U64(64, 0, 0, 0)})
    /\ memoryMax = <<>>
    /\ pivotIn = [oldroot |-> FALSE, failing |-> {}]
    /\ rootfsBefore = {}
    /\ rootfsDirs = {}
    /\ command = <<"sh">>
    /\ args = <<>>
    /\ files = {}
    /\ commandPath = <<>>
    /\ retryIn = NoRetryIn
    /\ retryOut = NoRetryOut
    /\ reports = [p \in Procs |-> 0]
    /\ interrupts = 0
    /\ NoHandlerRuns
    /\ NoPty
    /\ pivotOut = NoPivot

\* cgroup.rs 104-111, 275-280, 289-291: add_process(pid of m).  On v2 the
\* write fails when the group is gone or m has ended.  On v1 (the manager
\* is built, main.rs 55-68, and add_process called without a setup, which
\* would panic before) add_process_v1 is todo!(): the process panics.
ApiAddProcess(m) ==
    /\ Alive("P0")
    /\ Cardinality(Idx("cgroup.procs")) < MaxAttach
    /\ IF cgroupV2
          THEN /\ pc["P0"] = "attach"
               /\ \E ok \in BOOLEAN :
                     /\ ok => (cgDir /\ Alive(m))
                     /\ log' = Append(log, Op("P0", "cgroup.procs", ok))
                     /\ cgMembers' = IF ok THEN cgMembers \cup {m} ELSE cgMembers
               /\ UNCHANGED <<pc, manager, runResult>>
          ELSE /\ pc["P0"] = "cgroup"
               /\ Return("P0", "Panic")
               /\ \E checks \in BOOLEAN :
                     IF "memory" \in limits /\ WithMemoryMb(memoryMb, checks).panic
                        THEN UNCHANGED <<manager, log>>
                        ELSE /\ manager' = [manager EXCEPT !["P0"] = TRUE]
                             /\ log' = Append(log, Op("P0", "add_process_v1", FALSE))
               /\ UNCHANGED cgMembers
    /\ UNCHANGED <<euidRoot, limits, cgroupV2, sigchldIgnored, status, view,
                   cgDir, cgFiles, childPid, usePty,
                   pivotIn, pivotOut, sigVars, envVars, memVars,
                   fsVars, cmdVars, retryVars, waitVars, handlerVars, ptyVars>>

\* cgroup.rs 113-134: an explicit call of cleanup()
ApiCleanup ==
    /\ pc["P0"] = "attach" /\ Alive("P0")
    /\ Cardinality(Idx("cleanup")) < MaxCleanups
    /\ \E i \in CleanupInputs("P0") :
          LET c == Cleanup("P0", i.hasKillFile, i.killOk, i.gone, i.busy)
          IN /\ CallCleanup("P0", c)
             /\ pc' = [pc EXCEPT !["P0"] = IF c.returns THEN @ ELSE "done"]
    /\ UNCHANGED <<euidRoot, limits, cgroupV2, sigchldIgnored, manager, view,
                   runResult, cgFiles, cgMembers, childPid, usePty,
                   pivotIn, pivotOut, sigVars, envVars, memVars,
                   fsVars, cmdVars, waitVars, handlerVars, ptyVars>>

\* the manager goes out of scope
ApiDrop ==
    /\ pc["P0"] = "attach" /\ Alive("P0")
    /\ Return("P0", "Ok")
    /\ UNCHANGED <<euidRoot, limits, cgroupV2, sigchldIgnored, status, manager, view,
                   cgDir, cgFiles, cgMembers, childPid, usePty, log,
                   pivotIn, pivotOut, sigVars, envVars, memVars,
                   fsVars, cmdVars, retryVars, waitVars, handlerVars, ptyVars>>

NextCgroup ==
    \/ CgroupSetup
    \/ \E m \in Procs : ApiAddProcess(m)
    \/ ApiCleanup
    \/ ApiDrop
    \/ DropManager("P0")

SpecCgroup == InitCgroup /\ [][NextCgroup]_vars

\* ---------------------------------------- cleanup of an existing group
\* A group that was set up and has any of the processes attached; its
\* manager is held by P0, which is at the point where it uses the manager.
\* delete_with_retry is tried on the directory with any number of retries
\* and any of the ceilings.
InitCleanup ==
    /\ euidRoot = TRUE
    /\ limits = {"pids"}
    /\ cgroupV2 = TRUE
    /\ sigchldIgnored = FALSE
    /\ pc = [p \in Procs |-> IF p = "P0" THEN "attach" ELSE "none"]
    /\ status = [p \in Procs |-> Running]
    /\ manager = [p \in Procs |-> p = "P0"]
    /\ view = [p \in Procs |-> "host"]
    /\ runResult = [p \in Procs |-> "none"]
    /\ cgDir = TRUE
    /\ cgFiles = {"pids.max"}
    /\ cgMembers \in SUBSET Procs
    /\ childPid = 0
    /\ usePty = FALSE
    /\ log = <<>>
    /\ delivered = <<>>
    /\ forwarded = <<>>
    /\ environ = HostVars
    /\ execEnv = {}
    /\ memoryMb = U64(64, 0, 0, 0)
    /\ memoryMax = <<>>
    /\ pivotIn = [oldroot |-> FALSE, failing |-> {}]
    /\ pivotOut = NoPivot
    /\ rootfsBefore = {}
    /\ rootfsDirs = {}
    /\ command = <<"sh">>
    /\ args = <<>>
    /\ files = {}
    /\ commandPath = <<>>
    /\ retryIn \in [retries : 0..MaxRetries, ceiling : Ceilings, busy : {0},
                     by : {"direct"}]
    /\ retryOut = NoRetryOut
    /\ reports = [p \in Procs |-> 0]
    /\ interrupts = 0
    /\ NoHandlerRuns
    /\ NoPty

\* cgroup.rs 179-205: delete_with_retry applied by P0 to the directory of
\* the group with the retries and the ceiling of retryIn; rmdir fails every
\* time while the group has a live member
ApplyDeleteWithRetry ==
    /\ pc["P0"] = "attach" /\ Alive("P0")
    /\ retryIn.by = "direct" /\ retryOut = NoRetryOut
    /\ cgDir
    /\ \E busy \in 0..MaxRetries :
          LET never == IF \E m \in cgMembers : Alive(m) THEN retryIn.retries ELSE busy
              d == DeleteWithRetry("P0", retryIn.retries, retryIn.ceiling, never)
          IN /\ retryIn' = [retryIn EXCEPT !.busy = never]
             /\ retryOut' = [ops |-> d.ops, sleeps |-> d.sleeps, result |-> d.result]
             /\ log' = log \o d.ops
             /\ cgDir' = ("rmdir_cgroup" \notin Succeeded(d.ops))
    /\ UNCHANGED <<euidRoot, limits, cgroupV2, sigchldIgnored, pc, status, manager, view,
                   runResult, cgFiles, cgMembers, childPid, usePty,
                   pivotIn, pivotOut, sigVars, envVars, memVars,
                   fsVars, cmdVars, waitVars, handlerVars, ptyVars>>

NextCleanup ==
    \/ ApplyDeleteWithRetry
    \/ ApiCleanup
    \/ ApiDrop
    \/ DropManager("P0")

SpecCleanup == InitCleanup /\ [][NextCleanup]_vars

\* ================================================================ claims
\* the user command was started (execve succeeded in P2)
CommandRan == DidOk("execve")
AllEnded == \A p \in Procs : ~Alive(p)

\* C1: when the user command exits normally with a non-zero status n, the
\* runtime process terminates with exit code n.  Stated for the runs in
\* which SIGCHLD has its default disposition and the container init is not
\* killed from outside.
C1_ExitCodeOfCommand ==
    \A n \in 1..MaxExitCode :
        ( /\ ~sigchldIgnored
          /\ CommandRan
          /\ status["P2"] = Exited(n)
          /\ status["P1"].kind # "signaled"
          /\ Terminated("P0") )
        => status["P0"] = Exited(n)

\* C2: when the user command is killed by signal s, the runtime process
\* terminates with exit code 128 + s.  Same runs as C1.
C2_ExitCodeOfSignal ==
    \A sg \in KillSignals :
        ( /\ ~sigchldIgnored
          /\ CommandRan
          /\ status["P2"] = Signaled(sg)
          /\ status["P1"].kind # "signaled"
          /\ Terminated("P0") )
        => status["P0"] = Exited(128 + sg)

\* C3: when every boot step succeeded (the command was started) and the user
\* command exits with status 0, the runtime process, once terminated, has
\* exit code 0 (the container init not being killed from outside).
C3_CleanExitZero ==
    ( /\ CommandRan
      /\ status["P2"] = Exited(0)
      /\ status["P1"].kind # "signaled"
      /\ Terminated("P0") )
    => status["P0"] = Exited(0)

C3_Witness ==
    /\ CommandRan
    /\ limits # {}
    /\ "P0" \in cgMembers
    /\ status["P2"] = Exited(0)
    /\ status["P1"] = Exited(0)
    /\ status["P0"] = Exited(0)

\* C4: in a run where a limit was requested and the cgroup directory was
\* created, once all processes of the runtime have terminated the directory
\* no longer exists.  Stated for the runs in which the leader was attached,
\* the command was started and the container init ended by itself.
C4_CgroupRemovedAtEnd ==
    ( /\ DidOk("mkdir_cgroup") /\ DidOk("cgroup.procs")
      /\ CommandRan
      /\ status["P1"].kind = "exited"
      /\ AllEnded )
    => ~cgDir

\* C5: without root, run fails with RootRequired and the process exits with
\* code 1; no cgroup directory is created, no unshare is issued and no fork
\* is performed (no privileged operation at all is issued).
C5_RootRequired ==
    ~euidRoot =>
        /\ log = <<>>
        /\ ~cgDir
        /\ status["P1"] = Unborn /\ status["P2"] = Unborn
        /\ runResult["P0"] \in {"none", "RootRequired"}
        /\ pc["P0"] \in {"start", "ret", "main", "done"}
        /\ Terminated("P0") =>
              (status["P0"] = Exited(1) /\ runResult["P0"] = "RootRequired")

C5_Witness ==
    ~euidRoot /\ status["P0"] = Exited(1) /\ runResult["P0"] = "RootRequired"

\* C6: with limits requested, the group is fully configured (directory
\* created, every requested limit file written) before the leader pid is
\* written to cgroup.procs, and that write has completed successfully before
\* unshare is issued.
C6_ConfiguredAttachedUnshared ==
    /\ Did("cgroup.procs") => (cgDir /\ Range(SetupWrites(limits)) \subseteq cgFiles)
    /\ (limits # {}) =>
          \A i \in Idx("unshare") :
              \E j \in 1..(i - 1) : log[j].op = "cgroup.procs" /\ log[j].ok

\* the operations that make up the boot steps 1..5 of C7: unshare, the
\* intermediate fork, set hostname, pivot root, execute command
StepOps ==
    << {"unshare"}, {"fork"}, {"sethostname"},
       {"validate_rootfs", "canonicalize", "mount_slave", "mount_bind", "mount_private",
        "chdir_rootfs", "mkdir_oldroot", "pivot_root", "chdir_root", "umount_oldroot",
        "remove_oldroot", "mkdir_proc", "mount_proc", "mount_sysfs", "mount_devtmpfs"},
       {"resolve_command", "openpty_probe", "openpty", "fork_command", "execve"} >>
\* the operation whose success ends step k
StepDone == <<"unshare", "fork", "sethostname", "mount_proc">>

\* C7: unshare, intermediate fork, set hostname, pivot root, execute command
\* happen in that order, each at most once, and an operation of a step is
\* issued only after the preceding step has succeeded.
C7_BootOrder ==
    /\ \A op \in {"unshare", "fork", "sethostname", "validate_rootfs", "resolve_command"} :
          Cardinality(Idx(op)) <= 1
    /\ \A k \in 2..5 : \A i \in 1..Len(log) :
          log[i].op \in StepOps[k] =>
              \E j \in 1..(i - 1) : log[j].op = StepDone[k - 1] /\ log[j].ok

C7_Witness ==
    /\ DidOk("unshare") /\ DidOk("fork") /\ DidOk("sethostname")
    /\ DidOk("pivot_root") /\ DidOk("mount_proc") /\ DidOk("execve")

\* C8: after the intermediate fork, sethostname, the pivot, the mounts and
\* the command execution are issued by the forked child (the execve by the
\* process it forks), never by the parent; the parent issues nothing more,
\* never returns from enter_pid_namespace, and when it exits its code is
\* derived from the status of the child.
C8_ParentOnlyWaits ==
    /\ \A i \in 1..Len(log) :
          log[i].op \in StepOps[3] \cup StepOps[4] \cup StepOps[5] =>
              log[i].p = (IF log[i].op = "execve" THEN "P2" ELSE "P1")
    /\ \A f \in Idx("fork") : log[f].ok =>
          /\ \A i \in (f + 1)..Len(log) : log[i].p # "P0"
          /\ pc["P0"] \in {"wait", "done"}
          /\ runResult["P0"] = "none"
          /\ status["P0"].kind = "exited" =>
                /\ Terminated("P1")
                /\ status["P0"].code =
                      (IF sigchldIgnored THEN 0
                       ELSE IF status["P1"].kind = "exited" THEN status["P1"].code
                       ELSE 128 + status["P1"].code)

C8_Witness ==
    /\ DidOk("fork") /\ DidOk("pivot_root") /\ DidOk("execve")
    /\ status["P1"] = Signaled(SIGKILL)
    /\ status["P0"] = Exited(128 + SIGKILL)

\* the order of the calls of pivot_root and the calls whose failure is
\* fatal, as the claim lists them
C9Order ==
    <<"mount_slave", "mount_bind", "mount_private", "chdir_rootfs", "mkdir_oldroot",
      "pivot_root", "chdir_root", "umount_oldroot", "remove_oldroot">>
C9Fatal ==
    {"mount_bind", "mount_private", "chdir_rootfs", "mkdir_oldroot", "pivot_root",
     "chdir_root"}

\* C9: pivot_root issues its calls in the fixed order (oldroot is created
\* unless it exists already); the failure of bind, MS_PRIVATE, chdir, oldroot
\* creation, pivot or chdir("/") returns an error and nothing later is
\* issued; a failure of the MS_SLAVE remount, the detach or the removal does
\* not stop the sequence.
C9_PivotOrder ==
    pivotOut.done =>
        LET Issued(st) == ~(st = "mkdir_oldroot" /\ pivotIn.oldroot)
            exp == SelectSeq(C9Order, Issued)
            ops == pivotOut.ops
            n == Len(ops)
        IN /\ n <= Len(exp)
           /\ \A i \in 1..n : /\ ops[i].op = exp[i]
                              /\ ops[i].ok = (exp[i] \notin pivotIn.failing)
           /\ \A i \in 1..n : (~ops[i].ok /\ ops[i].op \in C9Fatal) =>
                                  (i = n /\ ~pivotOut.ok)
           /\ (\A i \in 1..n : ops[i].ok \/ ops[i].op \notin C9Fatal) =>
                  (n = Len(exp) /\ pivotOut.ok)

C9_Witness ==
    /\ pivotOut.done /\ pivotOut.ok
    /\ pivotIn.failing = {"mount_slave", "umount_oldroot", "remove_oldroot"}
    /\ Len(pivotOut.ops) = 9

\* the operations of the boot steps C10 lists up to the hostname
C10Steps ==
    {"mkdir_cgroup", "memory.max", "memory.swap.max", "cpu.max", "pids.max",
     "cgroup.procs", "unshare", "fork", "sethostname"}
BootOps ==
    C10Steps \cup StepOps[4] \cup StepOps[5]

\* C10: if a step of the boot sequence fails, no later step is executed and
\* the runtime process exits with a non-zero code.
C10_FailureAborts ==
    \A i \in 1..Len(log) :
        (log[i].op \in C10Steps /\ ~log[i].ok) =>
            /\ \A j \in (i + 1)..Len(log) : log[j].op \notin BootOps
            /\ status["P0"] # Exited(0)

\* C11: every delivery of SIGINT, SIGTERM or SIGQUIT to the process that
\* forked the command, between the fork and the reaping of the child, is
\* passed on by exactly one kill(child, same signal): the signals forwarded
\* are the signals delivered, in order, none dropped and none doubled.
C11_ForwardedExactlyOnce == forwarded = delivered

\* C12: when execute_container_command returns after a successful fork of
\* the command (Ok or Err, either path, any terminal status of the child),
\* exactly one waitpid call has collected the status of the child and
\* CHILD_PID holds 0.  Stated for the runs in which SIGCHLD has its default
\* disposition.
C12_ReapedOnceAndCleared ==
    ( /\ ~sigchldIgnored
      /\ DidOk("fork_command")
      /\ runResult["P1"] # "none" )
    => (Cardinality(Idx("reap")) = 1 /\ childPid = 0)

CleanupOps ==
    {"cgroup.kill", "read_procs", "kill_P0", "kill_P1", "kill_P2", "rmdir_cgroup"}

\* C14: a cleanup() call on a manager whose earlier cleanup() returned Ok
\* returns Ok and issues no kill, no write and no directory removal.
C14_SecondCleanupNoOp ==
    \A i \in Idx("cleanup"), j \in Idx("cleanup") :
        (i < j /\ log[i].ok /\ log[i].p = log[j].p) =>
            /\ log[j].ok
            /\ \A k \in (i + 1)..(j - 1) : log[k].op \notin CleanupOps

C14_Witness ==
    /\ DidOk("mkdir_cgroup") /\ DidOk("rmdir_cgroup")
    /\ \E i \in Idx("cleanup"), j \in Idx("cleanup") : i < j /\ log[i].ok /\ log[j].ok

\* C15: the cleanup run when the manager is dropped never changes the result
\* run() is returning, whether it fails or not, and the process then exits
\* with the code main derives from that result.
C15_TeardownOnlyLogged ==
    [][ \A p \in Procs :
          /\ pc[p] = "ret" => runResult'[p] = runResult[p]
          /\ (pc[p] = "main" /\ pc'[p] = "done") =>
                status'[p] = Exited(MainExitCode(runResult[p])) ]_vars

C15_Witness ==
    /\ \E i \in Idx("cleanup") : log[i].p = "P1" /\ ~log[i].ok
    /\ runResult["P1"] = "NamespaceSetup"
    /\ status["P1"] = Exited(ErrorExitCode)

\* M * 1048576 computed without a width: M shifted by 16 bits, times 16
C16Expected == LimitToString(MulLimbs(<<0>> \o memoryMb, 16, 0))

\* C16: with a memory limit of M megabytes configured, after a successful
\* setup on cgroup v2 the content written to <group>/memory.max is the
\* decimal value of M * 1048576.
C16_MemoryMaxValue ==
    ("memory" \in limits /\ cgroupV2 /\ pc["P0"] = "attach") =>
        memoryMax = C16Expected

\* C17: a memory limit of 0 is accepted when the configuration is built
\* (setup is entered), and when the kernel rejects the write of a limit file
\* during setup, setup returns an error of kind Cgroup.
C17_RejectionSurfaces ==
    /\ ( /\ memoryMb = U64(0, 0, 0, 0) /\ "memory" \in limits
          /\ cgroupV2 /\ pc["P0"] # "cgroup" ) => Did("mkdir_cgroup")
    /\ \A i \in 1..Len(log) :
          (log[i].op \in Range(SetupWrites(Limits)) /\ ~log[i].ok) =>
              runResult["P0"] = "Cgroup"

\* C18: when a pseudo-terminal cannot be allocated, at the probe or at any
\* later allocation of the call, execute_container_command does not fail for
\* that reason: it goes on to fork the command on the direct path.
C18_PtyFallback ==
    ( /\ \E i \in Idx("openpty_probe") \cup Idx("openpty") : ~log[i].ok
      /\ runResult["P1"] # "none" )
    => (Did("fork_command") /\ ~usePty)

\* the five entries C19 lists
C19Entries ==
    { "PATH=/usr/local/sbin:/usr/local/bin:/usr/sbin:/usr/bin:/sbin:/bin",
      "TERM=xterm", "HOME=/root", "HOSTNAME=rust-container",
      "container=rust-container-runtime" }

\* C19: the environment handed to execve for the command is exactly the five
\* fixed entries on the pty path and on the direct path, whatever the
\* environment of the runtime is.
C19_FixedEnvironment == Did("execve") => execEnv = C19Entries

C19_Witness ==
    /\ DidOk("execve") /\ usePty
    /\ environ = HostVars /\ execEnv = C19Entries

\* C20: when the rootfs path is missing or not a directory the run fails
\* with Filesystem and exit code 1, and the validation fails before a cgroup
\* is created, namespaces are unshared, a fork is made or the hostname set.
C20_RootfsValidatedFirst ==
    \A i \in Idx("validate_rootfs") : ~log[i].ok =>
        /\ \A j \in 1..(i - 1) :
              log[j].op \notin {"mkdir_cgroup", "unshare", "fork", "sethostname"}
        /\ runResult[log[i].p] = "Filesystem"
        /\ Terminated("P0") => status["P0"] = Exited(ErrorExitCode)

\* setup_container_filesystem has returned Ok: its last fatal call, the
\* mount of /proc, succeeded
SetupFilesystemOk == DidOk("mount_proc")

\* C21: whenever setup_container_filesystem has returned Ok (the rootfs
\* being a directory), the root of the calling process is the former rootfs
\* and /oldroot does not exist.
C21_PivotedAndOldrootGone ==
    SetupFilesystemOk => (view["P1"] = "container" /\ "oldroot" \notin rootfsDirs)

\* C22: after a complete run whose command exited with 0 the rootfs has the
\* entries it had before the run: nothing the runtime created (oldroot,
\* proc) remains.
C22_RootfsUnchanged ==
    (CommandRan /\ status["P2"] = Exited(0) /\ AllEnded) => rootfsDirs = rootfsBefore

\* C23: when argv is built (the command was resolved to an existing path)
\* from a command path or an argument that contains a NUL byte, the call
\* returns InvalidString (an error value, the process does not panic) and
\* no process is forked.
C23_NulIsInvalidString ==
    ( /\ HasNul(commandPath) \/ \E i \in 1..Len(args) : HasNul(args[i])
      /\ DidOk("resolve_command")
      /\ runResult["P1"] # "none" )
    => (runResult["P1"] = "InvalidString" /\ ~Did("fork_command"))

\* C24: on cgroup v1 (cgroup.controllers absent) the manager is built
\* without error and a call of setup or add_process returns an error value
\* ("unsupported", kind Cgroup) to the caller: the process does not panic.
C24_V1Unsupported ==
    \A i \in Idx("setup_v1") \cup Idx("add_process_v1") : runResult["P0"] = "Cgroup"

\* the resolution as C25 words it
C25Expected ==
    LET at(dir) == dir \o <<"/">> \o command
    IN IF command[1] = "/" THEN command
       ELSE IF at(<<"/", "bin">>) \in files THEN at(<<"/", "bin">>)
       ELSE IF at(<<"/", "usr", "/", "bin">>) \in files THEN at(<<"/", "usr", "/", "bin">>)
       ELSE IF at(<<"/", "sbin">>) \in files THEN at(<<"/", "sbin">>)
       ELSE IF at(<<"/", "usr", "/", "sbin">>) \in files THEN at(<<"/", "usr", "/", "sbin">>)
       ELSE at(<<"/", "bin">>)

\* C25: a command starting with "/" is used verbatim, any other resolves to
\* the first existing of /bin/<c>, /usr/bin/<c>, /sbin/<c>, /usr/sbin/<c>
\* and to /bin/<c> if none exists; if the resolved path does not exist the
\* call returns ProcessExecution, nothing is forked and CHILD_PID is
\* unchanged.
C25_Resolution ==
    Did("resolve_command") =>
        /\ commandPath = C25Expected
        /\ commandPath \notin files =>
              /\ runResult["P1"] = "ProcessExecution"
              /\ ~Did("fork_command")
              /\ status["P2"] = Unborn
              /\ childPid = 0

C25_Witness ==
    /\ command = <<"sh">>
    /\ commandPath = <<"/", "usr", "/", "bin", "/", "sh">>
    /\ <<"/", "usr", "/", "sbin", "/", "sh">> \in files
    /\ DidOk("execve")

\* the exit code C26 gives for what waitpid returns on the ended child
C26Code ==
    IF sigchldIgnored THEN 0
    ELSE IF status["P1"].kind = "exited" THEN status["P1"].code
    ELSE 128 + status["P1"].code

\* C26: the parent of the intermediate fork exits with the exit code of
\* the child on Exited, with 128 + signal on Signaled and with 0 on ECHILD,
\* and only then; a Stopped or Continued report leaves it alive in the wait
\* loop.
C26_ParentWaitLoop ==
    [][ /\ reports'["P0"] # reports["P0"]
           => (status'["P0"] = Running /\ pc'["P0"] = "wait")
        /\ (pc["P0"] = "wait" /\ status["P0"] = Running /\ status'["P0"] # Running)
           => (Terminated("P1") /\ status'["P0"] = Exited(C26Code)) ]_vars

C26_Witness ==
    /\ reports["P0"] > 0
    /\ status["P1"] = Signaled(SIGKILL)
    /\ status["P0"] = Exited(128 + SIGKILL)

\* C30: wait_for_child returns Ok exactly when waitpid reports Exited(0)
\* and ProcessExecution when it reports Exited(n # 0), Signaled or an error
\* other than EINTR (ECHILD); after EINTR or a report that is not the end
\* of the child it is still waiting; and once the child has terminated it
\* returns.
C30_WaitForChild ==
    /\ []( (DidOk("fork_command") /\ ~usePty /\ runResult["P1"] # "none") =>
             /\ Terminated("P2")
             /\ runResult["P1"] =
                   (IF ~sigchldIgnored /\ status["P2"] = Exited(0)
                       THEN "Ok" ELSE "ProcessExecution") )
    /\ [][ (interrupts' # interrupts \/ reports'["P1"] # reports["P1"]) =>
              (pc'["P1"] = "wait_child" /\ runResult' = runResult) ]_vars
    /\ ( (pc["P1"] = "wait_child" /\ Alive("P1") /\ Terminated("P2"))
           ~> (pc["P1"] # "wait_child") )

C30_Witness ==
    /\ ~usePty /\ interrupts > 0 /\ reports["P1"] > 0
    /\ status["P2"] = Exited(0) /\ runResult["P1"] = "Ok"

\* C27: a delete_with_retry call with N retries makes at most N rmdir
\* attempts; it returns Ok at the first attempt that succeeds, with no
\* attempt and no sleep after it; after N failed attempts it returns an
\* error of kind Cgroup; and cleanup calls it with N = 5.
C27_BoundedRetry ==
    retryOut.result # "none" =>
        LET ops == retryOut.ops
            n == Len(ops)
        IN /\ n <= retryIn.retries
           /\ \A i \in 1..(n - 1) : ~ops[i].ok
           /\ retryOut.result = "Ok" =>
                 (n >= 1 /\ ops[n].ok /\ Len(retryOut.sleeps) = n - 1)
           /\ retryOut.result # "Ok" =>
                 (n = retryIn.retries /\ (n >= 1 => ~ops[n].ok)
                  /\ retryOut.result = "Cgroup")
           /\ retryIn.by = "cleanup" => retryIn.retries = 5

\* C28: in a delete_with_retry call every sleep is at most the ceiling
\* (whatever the ceiling, also one below the initial 10 ms), the sleeps
\* never get shorter, and the sleep after attempt k + 1 is
\* min(sleep after attempt k * k, ceiling).
C28_SleepsCapped ==
    retryOut.result # "none" =>
        LET sl == retryOut.sleeps
            c == retryIn.ceiling
            min(d) == IF c = NoCeiling \/ d <= c THEN d ELSE c
        IN /\ \A k \in 1..Len(sl) : c # NoCeiling => sl[k] <= c
           /\ \A k \in 1..(Len(sl) - 1) :
                 sl[k + 1] >= sl[k] /\ sl[k + 1] = min(sl[k] * k)

\* C29: a cleanup() call on an existing group (by a caller that is not a
\* member) starts with the kill step, a write to cgroup.kill or the read of
\* cgroup.procs; after the read every live member is sent a SIGKILL, also
\* when the kill of an earlier one failed; and every rmdir comes after the
\* kill step.
C29_KillThenRemove ==
    [][ ( /\ Len(log') > Len(log)
          /\ log'[Len(log')].op = "cleanup"
          /\ PathExists(log'[Len(log')].p)
          /\ log'[Len(log')].p \notin cgMembers )
        => LET new == SubSeq(log', Len(log) + 1, Len(log') - 1)
           IN /\ Len(new) >= 1
              /\ new[1].op \in {"cgroup.kill", "read_procs"}
              /\ (new[1].op = "read_procs" /\ new[1].ok) =>
                    \A m \in cgMembers : Alive(m) =>
                        \E i \in 1..Len(new) : new[i].op = KillOp(m)
              /\ \A i \in 1..Len(new) : new[i].op = "rmdir_cgroup" =>
                    \A j \in 1..Len(new) : new[j].op # "rmdir_cgroup" => j < i
      ]_vars

\* C35: a run of the handler of SIGINT, SIGTERM and SIGQUIT reads the
\* child-pid atomic and at most issues a kill: it leaves the atomic as it
\* is, issues no file operation and no sleep, and changes nothing of the
\* cgroup; teardown is never part of a handler run.
C35_HandlerOnlyKills ==
    [][ (delivered' # delivered \/ handlerRuns' # handlerRuns)
        => /\ childPid' = childPid /\ childPidCopy' = childPidCopy
           /\ log' = log
           /\ retryOut' = retryOut
           /\ cgDir' = cgDir /\ cgFiles' = cgFiles /\ manager' = manager
           /\ runResult' = runResult
      ]_vars

C35_Witness ==
    /\ Len(forwarded) > 0
    /\ \E r \in handlerRuns : r.p = "P1"

\* C36: the child-pid atomic is 0 before the fork of the command, holds
\* the pid of the child from the store that follows the fork until the
\* child is reaped, and is 0 once the child has been reaped; no signal
\* handled after the reap is passed on to the pid of the reaped child.
C36_AtomicBetweenForkAndReap ==
    /\ ~Did("fork_command") => childPid = 0
    /\ (pc["P1"] \in {"pump", "final_wait", "wait_child"} /\ ~Did("reap"))
          => childPid = CmdPid
    /\ Did("reap") => childPid = 0
    /\ \A r \in handlerRuns : ~r.stale

\* C37: the handler issues kill only when the value it read from the
\* atomic is positive: a signal handled while the atomic is 0 (before the
\* store, after the clear, in the forked child before it resets its
\* dispositions) leads to no kill, and no kill goes to pid 0 or below.
C37_KillOnlyPositive ==
    /\ [](\A r \in handlerRuns : r.kill <=> r.value > 0)
    /\ [][ delivered' # delivered
            => /\ (forwarded' # forwarded) <=> (childPid > 0)
               /\ childPid <= 0 => status' = status
          ]_vars

C37_Witness ==
    /\ Len(delivered) > Len(forwarded)
    /\ \E r \in handlerRuns : r.value = 0 /\ ~r.kill

\* C38: execute_with_pty returns Ok only if one of its waitpid calls saw
\* the child end with Exited(0): never when the terminal status was not
\* seen (ECHILD), when the child exited non-zero or when a signal killed it.
C38_OkOnlyAfterExitZero ==
    (usePty /\ DidOk("fork_command") /\ runResult["P1"] = "Ok")
    => (Did("reap") /\ status["P2"] = Exited(0))

\* C40: when execve fails in the process forked for the command, that
\* process ends with exit code 1 (unless a signal kills it first) and runs
\* nothing of the parent side: no store to the atomic, no pump, no wait;
\* and its parent returns a ProcessExecution error.
C40_ExecveFailure ==
    (\E i \in Idx("execve") : ~log[i].ok)
    => /\ status["P2"].kind = "exited" => status["P2"].code = ErrorExitCode
       /\ \A i \in 1..Len(log) : log[i].p = "P2" => log[i].op \in {"execve", "cleanup"}
       /\ pc["P2"] \in {"ret", "main", "done"}
       /\ childPidCopy = 0
       /\ runResult["P1"] # "none" => runResult["P1"] = "ProcessExecution"

\* C39: the kill step of cleanup() on an existing group is never run by a
\* process that is a member of the group: whenever a CgroupManager is
\* dropped, in the runtime or in the forked container init, the process
\* that runs cleanup has not been attached.
C39_CleanupNotByMember ==
    [][ \A i \in (Len(log) + 1)..Len(log') :
            (log'[i].op \in {"cgroup.kill", "read_procs"} /\ PathExists(log'[i].p))
            => log'[i].p \notin cgMembers
      ]_vars

\* the parent branch of execute_with_pty has returned
PtyReturned == DidOk("fork_command") /\ usePty /\ pc["P1"] \in {"ret", "main", "done"}

\* C31: when the pump finds that the child has exited or was killed by a
\* signal, everything the child wrote before it ended has been copied to
\* host stdout by the time execute_with_pty returns: nothing is left in the
\* pty.
C31_NoOutputLost ==
    (PtyReturned /\ Did("reap")) => (pending = 0 /\ shown = written)

\* C32: the pump has no timeout and ends when the child ends:
\* execute_with_pty never returns while the child is alive, and once the
\* child has terminated it does return (the main thread being scheduled).
C32_PumpEndsWithChild ==
    /\ [](PtyReturned => ~Alive("P2"))
    /\ (Terminated("P2") /\ pc["P1"] \in {"pump", "final_wait"} /\ Alive("P1"))
          ~> PtyReturned

C32_Witness ==
    /\ PtyReturned
    /\ Did("reap")
    /\ shown > 0

\* C33: the parent of the pty path spawns exactly one auxiliary thread; the
\* thread ends on EOF or a read error of stdin or on a write error of the
\* master, and it does not end while stdin is open, the command is alive
\* and data can still flow.
C33_StdinThread ==
    /\ threads <= 1
    /\ pc["P1"] \in {"pump", "final_wait"} => threads = 1
    /\ thread.state = "ended" =>
          /\ thread.why \in {"eof", "read_error", "write_error"}
          /\ ~thread.sidesOpen

\* C34: every descriptor execute_with_pty deals with has exactly one owning
\* object while it is open, is closed at most once, and has no owner left
\* once it is closed; when the call has returned the master and the slave
\* have been closed exactly once.
C34_OneOwnerPerFd ==
    /\ \A f \in Fds :
          /\ fd[f].open => Cardinality(fd[f].owners) = 1
          /\ fd[f].closes <= 1
          /\ (~fd[f].open /\ fd[f].closes > 0) => fd[f].owners = {}
    /\ PtyReturned => (fd["master"].closes = 1 /\ fd["slave"].closes = 1)

====
